---- MODULE Spec2Model ----
(***************************************************************************)
(* QPLEX: the execution workflows (IBM session workflow, GGAEM workflow),  *)
(* QModel.solve and the result extractor get_solution_from_counts.         *)
(*                                                                         *)
(* External collaborators (scipy.optimize.minimize, the backend sampler,   *)
(* the provider SDKs) are modelled by nondeterministic choice over the     *)
(* outcomes they can produce: the points the optimizer evaluates, the      *)
(* point it returns, the histograms a sampler returns, a raised exception. *)
(***************************************************************************)
EXTENDS Integers, Sequences, FiniteSets, TLC

VARIABLES
    \* ---- state shared by the two workflows (one runs at a time)
    pc,                 \* position in the running workflow function
    provider,           \* config.provider: the adapter the solver object is
    max_iter,           \* options.max_iter
    optimizer,          \* options.optimizer
    circuit,            \* algorithm_instance.circuit
    iteration,          \* algorithm_instance.iteration
    starting_point,     \* algorithm_instance.get_starting_point()
    cost_evals,         \* cost_function calls made by the optimizer so far
    converged,          \* optimization_result.success
    optimal_params,     \* optimization_result.x
    last_params,        \* params of the most recent submission
    last_counts,        \* histogram of the most recent submission
    result,             \* the value the workflow returned
    raised,             \* the exception that left the workflow, or None
    \* ---- run_ibm_session_workflow only
    vqc,                \* ibmq_solver.parse_input(algorithm_instance.circuit)
    isa_circuit,        \* pass_manager.run(vqc)
    transpile_calls,    \* calls of pass_manager.run
    compute_counts_calls, \* calls of compute_counts
    bound_vqc,          \* the bound circuit of the most recent compute_counts
    cc_qc,              \* the qc argument of the most recent compute_counts
    session_open,       \* inside the `with Session(...)` block
    \* ---- ggae_workflow only
    remove_calls,       \* calls of algorithm_instance.remove_parameters
    update_calls,       \* calls of algorithm_instance.update_params
    solve_calls,        \* calls of solver.solve
    last_qc,            \* the circuit text of the most recent solver.solve
    eval_calls,         \* the calls made by the most recent cost_function
    cost,               \* what the most recent cost_function returned
    \* ---- the QModel and get_solution_from_counts
    model,              \* the model: variables, objective, sense
    optimal_counts,     \* the histogram handed to get_solution_from_counts
    interpret,          \* its `interpret` argument
    interpreter,        \* its `interpreter` argument
    extracted,          \* what get_solution_from_counts returned or raised
    xpc,                \* position of the extractor call
    \* ---- QModel.solve
    spc,                \* position in QModel.solve
    method,             \* the `method` argument
    workflow,           \* config.workflow
    tokens,             \* the keys of quantum_api_tokens that hold a token
    trace,              \* the calls the current solve has made, in order
    solve_count,        \* calls of solve so far
    solve_result,       \* the local `result`
    solution,           \* the local `solution` (a ModelSolution)
    qmodel_solution,    \* self._qmodel_solution
    solve_raised,       \* the exception that left solve
    \* ---- calculate_energy and the algorithm object
    qubo,               \* algorithm_instance.qubo (its objective)
    sample_counts,      \* the `counts` argument of calculate_energy
    shots,              \* the `shots` argument of calculate_energy
    energy,             \* what calculate_energy returned
    epc,                \* position of the calculate_energy call
    \* ---- update_params / replace_params called on their own
    algorithm,          \* the callee: "qaoa", "vqe" or "replace_params"
    alg_circuit,        \* self.circuit (QAOA), self.ansatz (VQE), or the
                        \* `circuit` argument of replace_params
    alg_num_params,     \* self.num_params
    up_params,          \* the `params` argument of the most recent call
    up_result,          \* what the most recent call returned or raised
    up_calls,           \* calls made so far
    \* ---- SolverFactory.get_solver called on its own
    f_provider,         \* the `provider` argument
    f_tokens,           \* the `quantum_api_tokens` argument
    f_options,          \* config.provider_options
    f_result,           \* what get_solver returned or raised
    fpc,                \* position of the get_solver call
    \* ---- credentials
    saved_accounts,     \* the tokens persisted in the provider SDK's
                        \* account file on disk
    token_reads,        \* reads of quantum_api_tokens in the current solve
    \* ---- the constraint inspector and the mixer selection
    i_model,            \* the constraints of the inspected model
    i_info,             \* the ConstraintInfo
    i_config,           \* the AlgorithmConfig given to get_algorithm
    i_mixer,            \* the mixer selected
    i_circuit,          \* the text create_circuit builds with that mixer
    i_result,           \* the error get_algorithm raised, if any
    ipc,                \* position of the inspector run
    \* ---- QAOA.create_circuit called on its own
    c_linear,           \* qubo.objective.linear.to_array()
    c_quadratic,        \* qubo.objective.quadratic.to_array()
    c_p,                \* the depth p of the QAOA object
    c_mixer,            \* its mixer
    c_text,             \* the text create_circuit returned
    cpc,                \* position of the create_circuit call
    \* ---- parse_response of a gate-based adapter called on its own
    a_adapter,          \* "ibmq" or "braket"
    a_response,         \* the backend's histogram
    a_counts,           \* what parse_response returned
    apc,                \* position of the call
    \* ---- DWaveSolver (solvers/dwave_solver.py) called on its own
    dpc,                \* position in DWaveSolver.solve
    d_model,            \* the model handed to solve
    d_backend,          \* self._backend
    d_embedding,        \* self.embedding
    d_dqm,              \* the DiscreteQuadraticModel class in use
    d_parsed,           \* what parse_input returned
    d_model_type,       \* the model type parse_input returned
    d_sampler,          \* what select_backend returned
    d_sampled,          \* the sampling call of this solve
    d_warned,           \* the fallback warning was printed in this solve
    d_solves,           \* solve calls started on this instance
    d_raised,           \* the exception that left solve, or None
    \* ---- OptimizationCallback objects of the ExecutionConfig objects
    kpc,                \* position in the solve that uses a callback
    k_callbacks,        \* per config object: its callback's state
    k_config,           \* the config object of the current solve
    k_model,            \* the model of the current solve
    k_max_iter,         \* optimizer callbacks the current solve will make
    k_calls,            \* optimizer callbacks made in the current solve
    k_start,            \* the callback's counter when the solve started
    k_solves            \* solve calls started

wfVars == <<pc, provider, max_iter, optimizer, circuit, iteration, starting_point, cost_evals,
            converged, optimal_params, last_params, last_counts, result,
            raised>>
sessVars == <<vqc, isa_circuit, transpile_calls, compute_counts_calls,
              bound_vqc, cc_qc, session_open>>
ggaeVars == <<remove_calls, update_calls, solve_calls, last_qc, eval_calls,
              cost>>
cfgVars == <<provider, max_iter, optimizer>>
extractVars == <<model, optimal_counts, interpret, interpreter, extracted,
                 xpc>>
\* the state outside the workflows
solveVars == <<spc, method, workflow, tokens, trace, solve_count,
               solve_result, solution, qmodel_solution, solve_raised>>
energyVars == <<epc, qubo, sample_counts, shots, energy>>
paramVars ==
    <<up_calls, algorithm, alg_circuit, alg_num_params, up_params, up_result>>
factoryVars == <<f_provider, f_tokens, f_options, f_result, fpc>>
credVars == <<saved_accounts, token_reads>>
inspVars == <<ipc, i_model, i_info, i_config, i_mixer, i_circuit, i_result>>
circVars == <<cpc, c_linear, c_quadratic, c_p, c_mixer, c_text>>
adapterVars == <<apc, a_adapter, a_response, a_counts>>
dwVars == <<dpc, d_solves, d_model, d_backend, d_embedding, d_dqm,
            d_parsed, d_model_type, d_sampler, d_sampled, d_warned,
            d_raised>>
cbVars == <<kpc, k_callbacks, k_config, k_model, k_max_iter, k_calls,
            k_start, k_solves>>
afterAdapter == <<dwVars, cbVars>>
afterCirc == <<adapterVars, afterAdapter>>
componentVars == <<circVars, afterCirc>>
unitVars ==
    <<energyVars, paramVars, factoryVars, credVars, inspVars, componentVars>>
outsideWf == <<extractVars, solveVars, unitVars>>
vars == <<wfVars, sessVars, ggaeVars, outsideWf>>

None == "None"

\* The state of the functions that are called on their own, before any
\* call.
EnergyIdle ==
    /\ qubo = None /\ sample_counts = None /\ shots = 0 /\ energy = None
    /\ epc = "idle"

ParamsIdle ==
    /\ algorithm = None /\ alg_circuit = None /\ alg_num_params = 0
    /\ up_params = <<>> /\ up_result = None /\ up_calls = 0

FactoryIdle ==
    /\ f_provider = None /\ f_tokens = None /\ f_options = None
    /\ f_result = None /\ fpc = "idle"
    /\ saved_accounts = {} /\ token_reads = 0

InspIdle ==
    /\ i_model = None /\ i_info = None /\ i_config = None
    /\ i_mixer = None /\ i_circuit = None /\ ipc = "idle"
    /\ i_result = [raised |-> FALSE]

CircIdle ==
    /\ c_linear = None /\ c_quadratic = None /\ c_p = 0 /\ c_mixer = None
    /\ c_text = None /\ cpc = "idle"

AdapterIdle ==
    /\ a_adapter = None /\ a_response = None /\ a_counts = None
    /\ apc = "idle"

DwIdle ==
    /\ dpc = "idle" /\ d_model = None /\ d_backend = None
    /\ d_embedding = None /\ d_dqm = None /\ d_parsed = None
    /\ d_model_type = None /\ d_sampler = None /\ d_sampled = None
    /\ d_warned = FALSE /\ d_solves = 0 /\ d_raised = None

CbIdle ==
    /\ kpc = "idle" /\ k_callbacks = None /\ k_config = None
    /\ k_model = None /\ k_max_iter = 0 /\ k_calls = 0 /\ k_start = 0
    /\ k_solves = 0

AfterAdapterIdle == DwIdle /\ CbIdle
AfterCircIdle == AdapterIdle /\ AfterAdapterIdle
ComponentIdle == CircIdle /\ AfterCircIdle

UnitIdle ==
    /\ EnergyIdle /\ ParamsIdle /\ FactoryIdle /\ InspIdle
    /\ ComponentIdle

(***************************************************************************)
(* Bounds of the model.                                                    *)
(***************************************************************************)
\* QAOA depth p of the runs explored (num_params = 2 * p)
MaxP == 1
\* largest options.max_iter explored
MaxIter == 10
\* most cost evaluations of one run explored
MaxEvals == MaxIter + 1
\* options.optimizer and options.max_iter of the runs explored.  "COBYLA"
\* is the default; "Nelder-Mead" stands for the other methods of
\* ALLOWED_OPTIMIZERS, whose maxiter limits iterations, not evaluations.
OptimizerConfigs ==
    ({"COBYLA"} \X (1..MaxIter)) \cup ({"Nelder-Mead"} \X {MaxIter})

\* The most calls of cost_function scipy.optimize.minimize(method=optimizer,
\* options={'maxiter': max_iter}) makes: COBYLA stops at maxiter function
\* evaluations; for the other methods an iteration takes several
\* evaluations, so their number is not limited by max_iter.
EvalLimit(opt, maxiter) == IF opt = "COBYLA" THEN maxiter ELSE MaxEvals
\* number of qubits / classical bits of the circuits explored
NQubits == 2
\* shots per submission
Shots == 2

\* QAOA.num_params
num_params == 2 * MaxP
ParamIndex == 0..(num_params - 1)
\* parameter values (floats in the code) are abstracted to two values
ParamVectors == [ParamIndex -> {0, 1}]
Bitstrings == [1..NQubits -> {0, 1}]

\* QAOA.get_starting_point: np.random.rand(2 * p) after np.random.seed(seed)
\* in __init__, one fixed vector for the seed of the run.
GetStartingPoint == [i \in ParamIndex |-> 0]

\* The points scipy.optimize.minimize may evaluate next: x0 first, any
\* point afterwards.
NextPoints == IF cost_evals = 0 THEN {starting_point} ELSE ParamVectors

RECURSIVE SumCounts(_)
SumCounts(h) == IF h = <<>> THEN 0 ELSE Head(h)[2] + SumCounts(Tail(h))

\* A Python dict of counts: its items in insertion order, keys distinct.
IsDict(h) == \A i, j \in 1..Len(h) : i # j => h[i][1] # h[j][1]

\* What a sampler can return for `Shots` shots.
RawCounts ==
    UNION {{h \in [1..k -> Bitstrings \X (1..Shots)] :
              IsDict(h) /\ SumCounts(h) = Shots} : k \in 1..Shots}

\* The bitstrings measured inside the workflows: the first qubit alone and
\* the last qubit alone, mirror images with different energies.
SamplerKeys ==
    {[i \in 1..NQubits |-> IF i = k THEN 1 ELSE 0] : k \in {1, NQubits}}

\* The sampler responses explored inside the workflows: every histogram
\* of `Shots` shots over these bitstrings, of one entry or of several, in
\* either insertion order.
SamplerOutcomes ==
    UNION {{h \in [1..k -> SamplerKeys \X (1..Shots)] :
              IsDict(h) /\ SumCounts(h) = Shots} : k \in 1..Shots}

\* The exception a failing provider call raises (a provider SDK type).
ProviderError == [type |-> "ProviderError", message |-> "provider message"]

(***************************************************************************)
(* Circuit text.  An OpenQASM text is the sequence of its lines; a line is *)
(* its operation, the qubits it names and the angle expression in its      *)
(* parentheses.  An angle names a placeholder (theta<k>, ry_angle_<k>) or  *)
(* holds the value substituted for it, times the factor written next to    *)
(* it.  `input float[64] theta<k>;` is the line with op "input".           *)
(***************************************************************************)
\* The objectives of the QUBOs explored: one linear coefficient per bit,
\* one quadratic coefficient on the pair (first bit, last bit), a constant.
Qubos ==
    [linear : [1..NQubits -> {-1, 2}], quad : {0, 3}, constant : {0, 1}]

\* algorithm_instance.qubo of the workflow runs explored: its objective
\* tells the first bit from the others.
WorkflowQubo ==
    [linear |-> [i \in 1..NQubits |-> IF i = 1 THEN 2 ELSE -1],
     quad |-> 3, constant |-> 1]

NoAngle == [kind |-> "none"]
Factor(n, d) == [num |-> n, den |-> d]
Placeholder(name, k, f) == [kind |-> name, index |-> k, factor |-> f]
Value(v, f) == [kind |-> "value", value |-> v, factor |-> f]
Line(op, qubits, angle) == [op |-> op, qubits |-> qubits, angle |-> angle]

RECURSIVE Flatten(_)
\* the concatenation of a sequence of sequences (list.extend in a loop)
Flatten(ss) == IF ss = <<>> THEN <<>> ELSE Head(ss) \o Flatten(Tail(ss))

\* the pairs (i, j), i < j < n, in the order of the nested loops
\* `for i in range(n): for j in range(i + 1, n)`
QubitPairs(n) ==
    Flatten([a \in 1..n |-> [b \in 1..(n - a) |-> <<a - 1, a - 1 + b>>]])

\* StandardMixer.generate_circuit: rx(2 * theta) on every qubit
StandardMixerCircuit(n, theta) ==
    [i \in 1..n |-> Line("rx", <<i - 1>>, Placeholder("theta", theta,
                                                       Factor(2, 1)))]

\* CardinalityMixer.generate_circuit: for every pair i < j the block
\* h, h, cx, rz(theta), cx, h, h
CardinalityMixerCircuit(n, theta) ==
    Flatten([k \in 1..Len(QubitPairs(n)) |->
        LET i == QubitPairs(n)[k][1]
            j == QubitPairs(n)[k][2]
        IN << Line("h", <<i>>, NoAngle), Line("h", <<j>>, NoAngle),
              Line("cx", <<i, j>>, NoAngle),
              Line("rz", <<j>>, Placeholder("theta", theta, Factor(1, 1))),
              Line("cx", <<i, j>>, NoAngle),
              Line("h", <<i>>, NoAngle), Line("h", <<j>>, NoAngle) >>])

\* PartitionMixer.generate_circuit: for i in range(0, n - 1, 2) the block
\* swap, rz(theta), rz(theta)
PartitionMixerCircuit(n, theta) ==
    Flatten([k \in 1..(n \div 2) |->
        LET i == 2 * (k - 1)
        IN << Line("swap", <<i, i + 1>>, NoAngle),
              Line("rz", <<i>>, Placeholder("theta", theta, Factor(1, 1))),
              Line("rz", <<i + 1>>,
                   Placeholder("theta", theta, Factor(1, 1))) >>])

\* InequalityMixer.generate_circuit: for i in range(n - 1) the block
\* cx, rz(theta), cx
InequalityMixerCircuit(n, theta) ==
    Flatten([k \in 1..(n - 1) |->
        LET i == k - 1
        IN << Line("cx", <<i, i + 1>>, NoAngle),
              Line("rz", <<i + 1>>,
                   Placeholder("theta", theta, Factor(1, 1))),
              Line("cx", <<i, i + 1>>, NoAngle) >>])

\* XYMixer.generate_circuit (xy_mixer.py lines 33-43): for every qubit i
\* and its neighbour j = (i + 1) % n on the ring the five list elements
\* "h q[i]; h q[j];", cx, rz(2*theta), cx, "h q[i]; h q[j];"; the two
\* Hadamards are one element of the list.
XYMixerCircuit(n, theta) ==
    Flatten([k \in 1..n |->
        LET i == k - 1
            j == k % n
        IN << Line("h; h", <<i, j>>, NoAngle),
              Line("cx", <<i, j>>, NoAngle),
              Line("rz", <<j>>, Placeholder("theta", theta, Factor(2, 1))),
              Line("cx", <<i, j>>, NoAngle),
              Line("h; h", <<i, j>>, NoAngle) >>])

\* generate_circuit of a mixer that is not a composite
SimpleMixerCircuit(class, n, theta) ==
    CASE class = "StandardMixer" -> StandardMixerCircuit(n, theta)
      [] class = "CardinalityMixer" -> CardinalityMixerCircuit(n, theta)
      [] class = "PartitionMixer" -> PartitionMixerCircuit(n, theta)
      [] class = "InequalityMixer" -> InequalityMixerCircuit(n, theta)
      [] class = "XYMixer" -> XYMixerCircuit(n, theta)

\* mixer.generate_circuit(n_qubits, theta); CompositeMixer concatenates
\* the circuits of its components in their order.
GenerateCircuit(mixer, n, theta) ==
    IF mixer.class = "CompositeMixer"
    THEN Flatten([k \in 1..Len(mixer.mixers) |->
                    SimpleMixerCircuit(mixer.mixers[k].class, n, theta)])
    ELSE SimpleMixerCircuit(mixer.class, n, theta)

StandardMixer == [class |-> "StandardMixer"]

\* the quadratic matrix of a QUBO of Qubos: its one coefficient sits on the
\* pair (first bit, last bit)
QuadMatrix(q, n) ==
    [i \in 0..(n - 1) |->
        [j \in 0..(n - 1) |->
            IF i = 0 /\ j = n - 1 /\ n > 1 THEN q.quad ELSE 0]]

RECURSIVE RowSum(_, _, _)
\* sum(quadratic_terms[i]) over the columns 0..j
RowSum(quadratic, i, j) ==
    IF j < 0 THEN 0 ELSE quadratic[i][j] + RowSum(quadratic, i, j - 1)

\* A plausible bug: the rz of a qubit carries its linear coefficient only.
CostLayerOf_NoRowSum(linear, quadratic, n, idx) ==
    [i \in 1..n |->
        Line("rz", <<i - 1>>,
             Placeholder("theta", 2 * idx, Factor(linear[i], 1)))]
    \o Flatten([k \in 1..Len(QubitPairs(n)) |->
          LET i == QubitPairs(n)[k][1]
              j == QubitPairs(n)[k][2]
          IN IF quadratic[i][j] # 0
             THEN << Line("cx", <<i, j>>, NoAngle),
                     Line("rz", <<j>>,
                          Placeholder("theta", 2 * idx,
                                      Factor(quadratic[i][j], 2))),
                     Line("cx", <<i, j>>, NoAngle) >>
             ELSE <<>>])

\* the cost part of QAOA layer idx (qaoa.py lines 98-114): one rz per
\* linear term, its weight the coefficient plus the row sum of the
\* quadratic matrix, then cx / rz / cx for every pair i < j with a
\* non-zero entry
CostLayerOf(linear, quadratic, n, idx) ==
    [i \in 1..n |->
        Line("rz", <<i - 1>>,
             Placeholder("theta", 2 * idx,
                 Factor(linear[i] + RowSum(quadratic, i - 1, n - 1), 1)))]
    \o Flatten([k \in 1..Len(QubitPairs(n)) |->
          LET i == QubitPairs(n)[k][1]
              j == QubitPairs(n)[k][2]
          IN IF quadratic[i][j] # 0
             THEN << Line("cx", <<i, j>>, NoAngle),
                     Line("rz", <<j>>,
                          Placeholder("theta", 2 * idx,
                                      Factor(quadratic[i][j], 2))),
                     Line("cx", <<i, j>>, NoAngle) >>
             ELSE <<>>])

\* the cost part of layer idx for a QUBO of Qubos
CostLayer(q, n, idx) == CostLayerOf(q.linear, QuadMatrix(q, n), n, idx)

\* QAOA.create_circuit (qaoa.py lines 88-122) for the linear and quadratic
\* arrays of the QUBO, n qubits, p layers and a mixer
QaoaCircuitOf(linear, quadratic, n, p, mixer) ==
    [i \in 1..(2 * p) |->
        Line("input", <<>>, Placeholder("theta", i - 1, Factor(1, 1)))]
    \o << Line("qreg", <<n>>, NoAngle), Line("creg", <<n>>, NoAngle) >>
    \o [i \in 1..n |-> Line("h", <<i - 1>>, NoAngle)]
    \o Flatten([l \in 1..p |->
                  CostLayerOf(linear, quadratic, n, l - 1)
                  \o GenerateCircuit(mixer, n, 2 * (l - 1) + 1)])
    \o [i \in 1..n |-> Line("measure", <<i - 1>>, NoAngle)]

\* QAOA.create_circuit for a QUBO of Qubos
QaoaCircuit(q, n, p, mixer) ==
    QaoaCircuitOf(q.linear, QuadMatrix(q, n), n, p, mixer)

\* The circuit of the workflow runs: QAOA with the standard mixer.
CreateCircuit == QaoaCircuit(WorkflowQubo, NQubits, MaxP, StandardMixer)

IsDeclaration(line) == line.op = "input"

\* A plausible bug: every line that names a parameter is dropped.
RemoveParameters_EveryTheta(text) ==
    SelectSeq(text, LAMBDA l : l.angle.kind # "theta")

\* Algorithm.remove_parameters: the lines that start with
\* `input float[64]` are dropped, the others stay in their order.
RemoveParameters(text) == SelectSeq(text, LAMBDA l : ~IsDeclaration(l))

\* the indices k of the theta<k> in the text
ThetasOf(text) ==
    {text[i].angle.index :
        i \in {j \in 1..Len(text) : text[j].angle.kind = "theta"}}

\* replace_params(circuit, params) raises IndexError when the text names a
\* theta<k> with k >= len(params).
ReplaceParamsRaises(text, params) == ~(ThetasOf(text) \subseteq DOMAIN params)

\* replace_params(circuit, params): re.sub puts str(params[k]) for every
\* theta<k> of the text, declarations included.
ReplaceParams(text, params) ==
    [i \in 1..Len(text) |->
        IF text[i].angle.kind = "theta"
        THEN [text[i] EXCEPT
                 !.angle = Value(params[text[i].angle.index],
                                 text[i].angle.factor)]
        ELSE text[i]]

\* IBMQSolver.parse_input: qasm3.loads of the text; the declared inputs
\* become the circuit's free parameters.
ParseInput(text) ==
    [parameters |->
        {text[i].angle.index :
            i \in {j \in 1..Len(text) : IsDeclaration(text[j])}},
     binding |-> <<>>, transpiled |-> FALSE]

\* pass_manager.run(vqc): a new circuit for the backend, same parameters.
Transpile(qc) == [qc EXCEPT !.transpiled = TRUE]

\* params_dict = {f'theta{i}': params[i] for i in range(len(params))}
ParamsDict(params) == [i \in DOMAIN params |-> params[i]]

\* The circuit with params_dict bound.
Bind(qc, params_dict) ==
    [qc EXCEPT !.parameters = qc.parameters \ DOMAIN params_dict,
               !.binding = [i \in (DOMAIN qc.binding) \cup
                                  (qc.parameters \cap DOMAIN params_dict) |->
                              IF i \in DOMAIN params_dict
                              THEN params_dict[i] ELSE qc.binding[i]]]

\* A plausible bug: binding in place (inplace=True), qc itself is changed.
AssignParameters_InPlace(qc, params_dict) ==
    [self |-> Bind(qc, params_dict), returned |-> Bind(qc, params_dict)]

\* qc.assign_parameters(params_dict): returns a new bound circuit and
\* leaves qc as it was (inplace defaults to False).
AssignParameters(qc, params_dict) ==
    [self |-> qc, returned |-> Bind(qc, params_dict)]

Reverse(s) == [i \in 1..Len(s) |-> s[Len(s) + 1 - i]]

\* IBMQSolver.parse_response: every key reversed, its count kept.
ParseResponse(response) ==
    [i \in 1..Len(response) |-> <<Reverse(response[i][1]), response[i][2]>>]

(***************************************************************************)
(* Models and the result extractor (commons/workflow_utils.py)             *)
(***************************************************************************)
\* number of variables of the models explored
NVars == 2
\* largest number of entries of a histogram given to the extractor
MaxEntries == 2
\* the counts of the entries of such a histogram: equal or different
Counts == {1, 2}
\* an integer variable ranges over 0..3: two bits in the QUBO
IntBits == 1 + 1

\* Objectives: one linear term per variable, in variable order, and at most
\* one quadratic triplet.
LinearTerms == {t \in [1..NVars -> (1..NVars) \X {-1, 2}] :
                  \A i \in 1..NVars : t[i][1] = i}
QuadTriplets == {<<>>} \cup {<< <<1, NVars, q>> >> : q \in {-2, 3}}

\* A model: the kinds of its variables in declared order ("B" binary, "I"
\* integer in 0..2^IntBits-1), its objective and its sense.  Variables
\* are identified by their position, which stands for their unique name.
BinaryModels ==
    [vartypes : {[i \in 1..NVars |-> "B"]},
     linear : LinearTerms,
     quad : QuadTriplets,
     sense : {"min", "max"}]

\* The models with an integer variable: the first variable is the integer
\* one, the objective is the sum of 2 * x_i, to be maximized.
IntegerModels ==
    [vartypes : {[i \in 1..NVars |-> IF i = 1 THEN "I" ELSE "B"]},
     linear : {[i \in 1..NVars |-> <<i, 2>>]},
     quad : {<<>>},
     sense : {"max"}]

Models == BinaryModels \cup IntegerModels

BitsOf(kind) == IF kind = "I" THEN IntBits ELSE 1

RECURSIVE QuboOffset(_, _)
\* the number of QUBO bits before those of variable i
QuboOffset(m, i) ==
    IF i = 1 THEN 0 ELSE QuboOffset(m, i - 1) + BitsOf(m.vartypes[i - 1])

\* the number of binary variables of the model's QUBO (no constraints)
QuboBits(m) == QuboOffset(m, NVars + 1)

RECURSIVE Pow2(_)
Pow2(k) == IF k = 0 THEN 1 ELSE 2 * Pow2(k - 1)

RECURSIVE DecodeBits(_, _, _)
\* sum of 2^k * bits[off + 1 + k] for k < n
DecodeBits(bits, off, n) ==
    IF n = 0 THEN 0
    ELSE DecodeBits(bits, off, n - 1) + Pow2(n - 1) * bits[off + n]

\* interpreter.interpret(x): the values of the original variables from the
\* bits of the QUBO, an integer variable being sum of 2^k b_k.
Interpret(m, bits) ==
    [i \in 1..NVars |->
        DecodeBits(bits, QuboOffset(m, i), BitsOf(m.vartypes[i]))]

\* Histograms over n-bit strings: a dict's items in insertion order.
HistogramsOf(n) ==
    UNION {{h \in [1..k -> [1..n -> {0, 1}] \X Counts] : IsDict(h)} :
             k \in 1..MaxEntries}

\* A plausible bug: on equal counts the later entry wins (>= for >).
MaxByCount_LastWins(counts) ==
    LET i == CHOOSE k \in 1..Len(counts) :
                /\ \A j \in 1..Len(counts) : counts[j][2] <= counts[k][2]
                /\ \A j \in (k + 1)..Len(counts) : counts[j][2] < counts[k][2]
    IN counts[i]

\* max(optimal_counts.items(), key=lambda x: x[1]): the first item, in
\* the dict's iteration order, among those with the largest count.
MaxByCount(counts) ==
    LET i == CHOOSE k \in 1..Len(counts) :
                /\ \A j \in 1..Len(counts) : counts[j][2] <= counts[k][2]
                /\ \A j \in 1..(k - 1) : counts[j][2] < counts[k][2]
    IN counts[i]

\* A plausible bug: bit i+1 read for variable i.
VariableValues_OffByOne(m, best_solution) ==
    [i \in 1..NVars |-> best_solution[(i % Len(best_solution)) + 1]]

\* for i, var in enumerate(model.iter_variables()):
\*     values[var.name] = int(best_solution[i])
VariableValues(m, best_solution) ==
    [i \in 1..NVars |-> best_solution[i]]

RECURSIVE AddLinear(_, _, _)
\* for t in linear_terms: obj_value += values[t[0].name] * t[1]
AddLinear(acc, terms, values) ==
    IF terms = <<>> THEN acc
    ELSE AddLinear(acc + values[Head(terms)[1]] * Head(terms)[2],
                   Tail(terms), values)

RECURSIVE AddQuadratic(_, _, _)
\* for t in quadratic_terms:
\*     obj_value += values[t[0].name] * values[t[1].name] * t[2]
AddQuadratic(acc, triplets, values) ==
    IF triplets = <<>> THEN acc
    ELSE AddQuadratic(acc + values[Head(triplets)[1]]
                              * values[Head(triplets)[2]] * Head(triplets)[3],
                      Tail(triplets), values)

\* A plausible bug: the objective reported in the QUBO's sense, negated
\* for a maximization.
ObjectiveValue_QuboSense(m, values) ==
    LET v == AddQuadratic(AddLinear(0, m.linear, values), m.quad, values)
    IN IF m.sense = "max" THEN 0 - v ELSE v

\* lines 51-61: obj_value over the objective's linear terms and quadratic
\* triplets.
ObjectiveValue(m, values) ==
    AddQuadratic(AddLinear(0, m.linear, values), m.quad, values)

\* get_solution_from_counts(model, optimal_counts, interpret, interpreter)
GetSolutionFromCounts(m, counts, interp, interp_obj) ==
    LET best_solution == MaxByCount(counts)[1] IN
    IF interp /\ interp_obj = None
    THEN [raised |-> TRUE, type |-> "ValueError",
          message |-> "Missing interpreter"]
    ELSE LET best == IF interp THEN Interpret(m, best_solution)
                     ELSE best_solution
             values == VariableValues(m, best)
         IN [raised |-> FALSE, solution |-> values,
             objective |-> ObjectiveValue(m, values)]

(***************************************************************************)
(* calculate_energy (commons/workflow_utils.py)                            *)
(***************************************************************************)
\* the `shots` arguments explored: below, at and above a histogram's total
ShotsArgs == 1..(2 * Shots)

RECURSIVE LinearValue(_, _, _)
LinearValue(q, sample, i) ==
    IF i = 0 THEN 0
    ELSE LinearValue(q, sample, i - 1) + q.linear[i] * sample[i]

\* algorithm_instance.qubo.objective.evaluate(sample): constant + linear +
\* quadratic part at the point `sample`, bit i of the list for variable i.
QuboEvaluate(q, sample) ==
    q.constant + LinearValue(q, sample, Len(sample))
        + q.quad * sample[1] * sample[Len(sample)]

\* sample = [int(n) for n in sample]: the characters of the key as
\* integers, in the order of the string
SampleBits(key) == [i \in 1..Len(key) |-> key[i]]

RECURSIVE EnergySum(_, _)
\* the loop of lines 96-98 over counts.items(), in the dict's order
EnergySum(items, q) ==
    IF items = <<>> THEN 0
    ELSE Head(items)[2] * QuboEvaluate(q, SampleBits(Head(items)[1]))
             + EnergySum(Tail(items), q)

\* A plausible bug: normalizing by the histogram's total, not by shots.
CalculateEnergy_ByTotal(cnts, sh, q) ==
    [num |-> EnergySum(cnts, q), den |-> SumCounts(cnts)]

\* calculate_energy's return value energy / shots, kept as the fraction
\* num / den.
CalculateEnergy(cnts, sh, q) ==
    [num |-> EnergySum(cnts, q), den |-> sh]

EnergyInit ==
    /\ qubo \in Qubos
    /\ sample_counts \in HistogramsOf(NQubits)
    /\ shots \in ShotsArgs
    /\ iteration \in {0, 1}
    /\ energy = None
    /\ epc = "call"
    /\ pc = "idle" /\ provider = None /\ max_iter = 1 /\ optimizer = None
    /\ circuit = None /\ starting_point = None
    /\ cost_evals = 0 /\ converged = None /\ optimal_params = None
    /\ last_params = None /\ last_counts = None
    /\ result = None /\ raised = None
    /\ vqc = None /\ isa_circuit = None
    /\ transpile_calls = 0 /\ compute_counts_calls = 0
    /\ bound_vqc = None /\ cc_qc = None /\ session_open = FALSE
    /\ remove_calls = 0 /\ update_calls = 0 /\ solve_calls = 0
    /\ last_qc = None /\ eval_calls = <<>> /\ cost = None
    /\ model = None /\ optimal_counts = None /\ interpret = FALSE
    /\ interpreter = None /\ extracted = None /\ xpc = "idle"
    /\ spc = "idle" /\ method = None /\ workflow = None /\ tokens = {}
    /\ trace = <<>> /\ solve_count = 0 /\ solve_result = None
    /\ solution = None /\ qmodel_solution = None /\ solve_raised = None
    /\ ParamsIdle /\ FactoryIdle /\ InspIdle /\ ComponentIdle

\* calculate_energy(counts, shots, algorithm_instance), lines 95-102
EnergyCall ==
    /\ epc = "call"
    /\ energy' = CalculateEnergy(sample_counts, shots, qubo)
    /\ iteration' = iteration + 1
    /\ epc' = "returned"
    /\ UNCHANGED <<pc, cfgVars, circuit, starting_point, cost_evals,
                   converged, optimal_params, last_params, last_counts,
                   result, raised, sessVars, ggaeVars, extractVars,
                   solveVars, paramVars, factoryVars, credVars, inspVars, componentVars,
                   qubo,
                   sample_counts, shots>>

EnergyNext == EnergyCall

SpecEnergy == EnergyInit /\ [][EnergyNext]_vars

SolveIdle ==
    /\ spc = "idle" /\ method = None /\ tokens = {}
    /\ trace = <<>> /\ solve_count = 0 /\ solve_result = None
    /\ solution = None /\ qmodel_solution = None /\ solve_raised = None

WfIdle ==
    /\ pc = "idle" /\ provider = None /\ max_iter = 1 /\ optimizer = None
    /\ circuit = None /\ iteration = 0 /\ starting_point = None
    /\ cost_evals = 0 /\ converged = None /\ optimal_params = None
    /\ last_params = None /\ last_counts = None
    /\ result = None /\ raised = None

\* The extractor called on its own: any model, any histogram over the
\* bits of its QUBO, with or without interpretation.
ExtractInit ==
    /\ model \in Models
    /\ optimal_counts \in HistogramsOf(QuboBits(model))
    /\ interpret \in BOOLEAN
    /\ interpreter \in {None, "QuadraticProgramToQubo"}
    /\ extracted = None
    /\ xpc = "call"
    /\ WfIdle
    /\ SolveIdle /\ workflow = None
    /\ UnitIdle
    /\ vqc = None /\ isa_circuit = None
    /\ transpile_calls = 0 /\ compute_counts_calls = 0
    /\ bound_vqc = None /\ cc_qc = None /\ session_open = FALSE
    /\ remove_calls = 0 /\ update_calls = 0 /\ solve_calls = 0
    /\ last_qc = None /\ eval_calls = <<>> /\ cost = None

ExtractReturns ==
    /\ xpc = "call"
    /\ ~GetSolutionFromCounts(model, optimal_counts, interpret,
                              interpreter).raised
    /\ extracted' = GetSolutionFromCounts(model, optimal_counts, interpret,
                                          interpreter)
    /\ xpc' = "returned"
    /\ UNCHANGED <<unitVars, wfVars, sessVars, ggaeVars, solveVars, model,
                   optimal_counts, interpret, interpreter>>

ExtractRaises ==
    /\ xpc = "call"
    /\ GetSolutionFromCounts(model, optimal_counts, interpret,
                             interpreter).raised
    /\ extracted' = GetSolutionFromCounts(model, optimal_counts, interpret,
                                          interpreter)
    /\ xpc' = "raised"
    /\ UNCHANGED <<unitVars, wfVars, sessVars, ggaeVars, solveVars, model,
                   optimal_counts, interpret, interpreter>>

ExtractNext == ExtractReturns \/ ExtractRaises

SpecExtract == ExtractInit /\ [][ExtractNext]_vars

ExtractIdle ==
    /\ model = None /\ optimal_counts = None /\ interpret = FALSE
    /\ interpreter = None /\ extracted = None /\ xpc = "idle"
    /\ SolveIdle

(***************************************************************************)
(* run_ibm_session_workflow (workflows/ibm_session_workflow.py)            *)
(***************************************************************************)
GGAEIdle ==
    /\ remove_calls = 0 /\ update_calls = 0 /\ solve_calls = 0
    /\ last_qc = None /\ eval_calls = <<>> /\ cost = None

SessInit ==
    /\ pc = "get_algorithm"
    /\ provider = "ibmq"
    /\ \E c \in OptimizerConfigs : optimizer = c[1] /\ max_iter = c[2]
    /\ circuit = None /\ iteration = 0 /\ starting_point = None
    /\ cost_evals = 0 /\ converged = None /\ optimal_params = None
    /\ last_params = None /\ last_counts = None
    /\ result = None /\ raised = None
    /\ vqc = None /\ isa_circuit = None
    /\ transpile_calls = 0 /\ compute_counts_calls = 0
    /\ bound_vqc = None /\ cc_qc = None /\ session_open = FALSE
    /\ GGAEIdle
    /\ ExtractIdle /\ workflow = "ibm_session"
    /\ UnitIdle

\* lines 41-54: AlgorithmFactory.get_algorithm builds the algorithm and
\* its circuit text; the parameter declarations stay in the text.
SessGetAlgorithm ==
    /\ workflow = "ibm_session"
    /\ pc = "get_algorithm"
    /\ circuit' = CreateCircuit
    /\ iteration' = 0
    /\ pc' = "parse_input"
    /\ UNCHANGED <<cfgVars, starting_point, cost_evals, converged,
                   optimal_params, last_params, last_counts, result, raised,
                   sessVars, ggaeVars, outsideWf>>

\* line 56: vqc = ibmq_solver.parse_input(algorithm_instance.circuit)
SessParseInput ==
    /\ workflow = "ibm_session"
    /\ pc = "parse_input"
    /\ vqc' = ParseInput(circuit)
    /\ pc' = "select_backend"
    /\ UNCHANGED <<cfgVars, circuit, iteration, starting_point, cost_evals,
                   converged, optimal_params, last_params, last_counts,
                   result, raised, isa_circuit, transpile_calls,
                   compute_counts_calls, bound_vqc, cc_qc, session_open,
                   ggaeVars, outsideWf>>

\* lines 57-61: select_backend and generate_preset_pass_manager
SessSelectBackend ==
    /\ workflow = "ibm_session"
    /\ pc = "select_backend"
    /\ pc' = "get_starting_point"
    /\ UNCHANGED <<cfgVars, circuit, iteration, starting_point, cost_evals,
                   converged, optimal_params, last_params, last_counts,
                   result, raised, sessVars, ggaeVars, outsideWf>>

\* line 57 when the service has no such backend: the exception leaves the
\* workflow before any session exists.
SessSelectBackendRaises ==
    /\ workflow = "ibm_session"
    /\ pc = "select_backend"
    /\ raised' = ProviderError
    /\ pc' = "raised"
    /\ UNCHANGED <<cfgVars, circuit, iteration, starting_point, cost_evals,
                   converged, optimal_params, last_params, last_counts,
                   result, sessVars, ggaeVars, outsideWf>>

\* line 63: starting_point = algorithm_instance.get_starting_point()
SessGetStartingPoint ==
    /\ workflow = "ibm_session"
    /\ pc = "get_starting_point"
    /\ starting_point' = GetStartingPoint
    /\ pc' = "transpile"
    /\ UNCHANGED <<cfgVars, circuit, iteration, cost_evals, converged,
                   optimal_params, last_params, last_counts, result, raised,
                   sessVars, ggaeVars, outsideWf>>

\* line 65: isa_circuit = pass_manager.run(vqc)
SessTranspile ==
    /\ workflow = "ibm_session"
    /\ pc = "transpile"
    /\ isa_circuit' = Transpile(vqc)
    /\ transpile_calls' = transpile_calls + 1
    /\ pc' = "open_session"
    /\ UNCHANGED <<cfgVars, circuit, iteration, starting_point, cost_evals,
                   converged, optimal_params, last_params, last_counts,
                   result, raised, vqc, compute_counts_calls, bound_vqc,
                   cc_qc, session_open, ggaeVars, outsideWf>>

\* lines 90-92: with Session(...) as session: sampler = SamplerV2(session)
SessOpenSession ==
    /\ workflow = "ibm_session"
    /\ pc = "open_session"
    /\ session_open' = TRUE
    /\ pc' = "minimize"
    /\ UNCHANGED <<cfgVars, circuit, iteration, starting_point, cost_evals,
                   converged, optimal_params, last_params, last_counts,
                   result, raised, vqc, isa_circuit, transpile_calls,
                   compute_counts_calls, bound_vqc, cc_qc, ggaeVars, outsideWf>>

\* compute_counts(params, solver, qc, sampler), lines 108-142, with the
\* sampler returning raw_counts.
ComputeCounts(params, qc, raw_counts) ==
    LET bound == AssignParameters(qc, ParamsDict(params)) IN
    /\ cc_qc' = qc
    /\ isa_circuit' = bound.self
    /\ bound_vqc' = bound.returned
    /\ compute_counts_calls' = compute_counts_calls + 1
    /\ last_params' = params
    /\ last_counts' = ParseResponse(raw_counts)

\* compute_counts when solver.run raises: the parameters are bound, the
\* run fails and nothing is parsed.
ComputeCountsRaises(params, qc) ==
    LET bound == AssignParameters(qc, ParamsDict(params)) IN
    /\ cc_qc' = qc
    /\ isa_circuit' = bound.self
    /\ bound_vqc' = bound.returned
    /\ compute_counts_calls' = compute_counts_calls + 1
    /\ last_params' = params
    /\ raised' = ProviderError

\* A plausible bug: transpiling again on every evaluation, as the
\* non-session IBMQSolver.solve does.
SessCostFunction_Retranspile ==
    /\ workflow = "ibm_session"
    /\ pc = "minimize"
    /\ cost_evals < EvalLimit(optimizer, max_iter)
    /\ \E params \in NextPoints, raw_counts \in SamplerOutcomes :
           ComputeCounts(params, Transpile(vqc), raw_counts)
    /\ transpile_calls' = transpile_calls + 1
    /\ cost_evals' = cost_evals + 1
    /\ iteration' = iteration + 1
    /\ UNCHANGED <<pc, cfgVars, circuit, starting_point, converged,
                   optimal_params, result, raised, vqc,
                   session_open, ggaeVars, outsideWf>>

\* One call of cost_function by the optimizer (lines 67-88): compute_counts
\* on the transpiled circuit, then calculate_energy, which increments
\* algorithm_instance.iteration.  How many calls the optimizer makes is its
\* own choice, within EvalLimit.
SessCostFunction ==
    /\ workflow = "ibm_session"
    /\ pc = "minimize"
    /\ cost_evals < EvalLimit(optimizer, max_iter)
    /\ \E params \in NextPoints, raw_counts \in SamplerOutcomes :
           ComputeCounts(params, isa_circuit, raw_counts)
    /\ cost_evals' = cost_evals + 1
    /\ iteration' = iteration + 1
    /\ UNCHANGED <<pc, cfgVars, circuit, starting_point, converged,
                   optimal_params, result, raised, vqc, transpile_calls,
                   session_open, ggaeVars, outsideWf>>

\* A plausible bug: the session created without the `with` statement, so
\* that an exception leaves it open.
SessCostFunctionRaises_LeavesSessionOpen ==
    /\ workflow = "ibm_session"
    /\ pc = "minimize"
    /\ cost_evals < EvalLimit(optimizer, max_iter)
    /\ \E params \in NextPoints : ComputeCountsRaises(params, isa_circuit)
    /\ cost_evals' = cost_evals + 1
    /\ pc' = "raised"
    /\ UNCHANGED <<cfgVars, circuit, iteration, starting_point, converged,
                   optimal_params, last_counts, result, vqc, transpile_calls,
                   session_open, ggaeVars, outsideWf>>

\* A cost evaluation whose sampler run raises: the exception leaves
\* scipy.optimize.minimize and the with block, which closes the session.
SessCostFunctionRaises ==
    /\ workflow = "ibm_session"
    /\ pc = "minimize"
    /\ cost_evals < EvalLimit(optimizer, max_iter)
    /\ \E params \in NextPoints : ComputeCountsRaises(params, isa_circuit)
    /\ cost_evals' = cost_evals + 1
    /\ session_open' = FALSE
    /\ pc' = "raised"
    /\ UNCHANGED <<cfgVars, circuit, iteration, starting_point, converged,
                   optimal_params, last_counts, result, vqc, transpile_calls,
                   ggaeVars, outsideWf>>

\* lines 94-102: scipy.optimize.minimize returns, having converged or
\* having used up its evaluations; optimal_params = optimization_result.x
SessMinimizeReturns ==
    /\ workflow = "ibm_session"
    /\ pc = "minimize"
    /\ cost_evals >= 1
    /\ optimal_params' \in ParamVectors
    /\ converged' \in BOOLEAN
    /\ pc' = "final_submission"
    /\ UNCHANGED <<cfgVars, circuit, iteration, starting_point, cost_evals,
                   last_params, last_counts, result, raised, sessVars,
                   ggaeVars, outsideWf>>

\* lines 104-105: return compute_counts(optimal_params, ...); leaving the
\* with block closes the session.
SessFinalSubmission ==
    /\ workflow = "ibm_session"
    /\ pc = "final_submission"
    /\ \E raw_counts \in SamplerOutcomes :
           /\ ComputeCounts(optimal_params, isa_circuit, raw_counts)
           /\ result' = ParseResponse(raw_counts)
    /\ session_open' = FALSE
    /\ pc' = "done"
    /\ UNCHANGED <<cfgVars, circuit, iteration, starting_point, cost_evals,
                   converged, optimal_params, raised, vqc, transpile_calls,
                   ggaeVars, outsideWf>>

SessFinalSubmissionRaises ==
    /\ workflow = "ibm_session"
    /\ pc = "final_submission"
    /\ ComputeCountsRaises(optimal_params, isa_circuit)
    /\ session_open' = FALSE
    /\ pc' = "raised"
    /\ UNCHANGED <<cfgVars, circuit, iteration, starting_point, cost_evals,
                   converged, optimal_params, last_counts, result, vqc,
                   transpile_calls, ggaeVars, outsideWf>>

SessNext ==
    \/ SessGetAlgorithm
    \/ SessParseInput
    \/ SessSelectBackend
    \/ SessSelectBackendRaises
    \/ SessGetStartingPoint
    \/ SessTranspile
    \/ SessOpenSession
    \/ SessCostFunction
    \/ SessCostFunctionRaises
    \/ SessMinimizeReturns
    \/ SessFinalSubmission
    \/ SessFinalSubmissionRaises

SpecSession == SessInit /\ [][SessNext]_vars

(***************************************************************************)
(* ggae_workflow (workflows/ggae_workflow.py)                              *)
(***************************************************************************)
SessIdle ==
    /\ vqc = None /\ isa_circuit = None
    /\ transpile_calls = 0 /\ compute_counts_calls = 0
    /\ bound_vqc = None /\ cc_qc = None /\ session_open = FALSE

GgaeInit ==
    /\ pc = "get_algorithm"
    /\ provider \in {"ibmq", "braket"}
    /\ \E c \in OptimizerConfigs : optimizer = c[1] /\ max_iter = c[2]
    /\ circuit = None /\ iteration = 0 /\ starting_point = None
    /\ cost_evals = 0 /\ converged = None /\ optimal_params = None
    /\ last_params = None /\ last_counts = None
    /\ result = None /\ raised = None
    /\ remove_calls = 0 /\ update_calls = 0 /\ solve_calls = 0
    /\ last_qc = None /\ eval_calls = <<>> /\ cost = None
    /\ SessIdle
    /\ ExtractIdle /\ workflow = "default"
    /\ qubo = WorkflowQubo /\ sample_counts = None /\ shots = 0
    /\ energy = None /\ epc = "idle"
    /\ ParamsIdle /\ FactoryIdle /\ InspIdle /\ ComponentIdle

\* solver.solve(qc) of the gate-based adapters, the backend returning
\* response: IBMQSolver.parse_response reverses every key,
\* BraketSolver.parse_response returns the measurement counts as they are.
SolverSolve(response) ==
    IF provider = "ibmq" THEN ParseResponse(response) ELSE response

\* lines 38-50: AlgorithmFactory.get_algorithm
GgaeGetAlgorithm ==
    /\ workflow = "default"
    /\ pc = "get_algorithm"
    /\ circuit' = CreateCircuit
    /\ iteration' = 0
    /\ pc' = "remove_parameters"
    /\ UNCHANGED <<cfgVars, starting_point, cost_evals, converged,
                   optimal_params, last_params, last_counts, result, raised,
                   sessVars, ggaeVars, outsideWf>>

\* line 52: algorithm_instance.remove_parameters()
GgaeRemoveParameters ==
    /\ workflow = "default"
    /\ pc = "remove_parameters"
    /\ circuit' = RemoveParameters(circuit)
    /\ remove_calls' = remove_calls + 1
    /\ pc' = "get_starting_point"
    /\ UNCHANGED <<cfgVars, iteration, starting_point, cost_evals, converged,
                   optimal_params, last_params, last_counts, result, raised,
                   sessVars, update_calls, solve_calls, last_qc, eval_calls,
                   cost, outsideWf>>

\* line 80: starting_point = algorithm_instance.get_starting_point()
GgaeGetStartingPoint ==
    /\ workflow = "default"
    /\ pc = "get_starting_point"
    /\ starting_point' = GetStartingPoint
    /\ pc' = "minimize"
    /\ UNCHANGED <<cfgVars, circuit, iteration, cost_evals, converged,
                   optimal_params, last_params, last_counts, result, raised,
                   sessVars, ggaeVars, outsideWf>>

\* qc = algorithm_instance.update_params(params); solver.solve(qc), the
\* backend returning response (lines 72-73 and 88-89).
Submit(params, response) ==
    /\ last_qc' = ReplaceParams(circuit, params)
    /\ update_calls' = update_calls + 1
    /\ solve_calls' = solve_calls + 1
    /\ last_params' = params
    /\ last_counts' = SolverSolve(response)

\* The same with solver.solve raising: the provider's exception is not
\* caught anywhere in the workflow.
SubmitRaises(params) ==
    /\ last_qc' = ReplaceParams(circuit, params)
    /\ update_calls' = update_calls + 1
    /\ solve_calls' = solve_calls + 1
    /\ last_params' = params
    /\ raised' = ProviderError

\* The optimizer calls cost_function(params) and line 72 runs:
\* qc = algorithm_instance.update_params(params).  The locals counts and
\* cost of the call are not bound yet.
GgaeCostFunction ==
    /\ workflow = "default"
    /\ pc = "minimize"
    /\ cost_evals < EvalLimit(optimizer, max_iter)
    /\ \E params \in NextPoints :
           /\ last_params' = params
           /\ last_qc' = ReplaceParams(circuit, params)
    /\ update_calls' = update_calls + 1
    /\ last_counts' = None
    /\ cost' = None
    /\ eval_calls' = <<"update_params">>
    /\ cost_evals' = cost_evals + 1
    /\ pc' = "solver.solve"
    /\ UNCHANGED <<cfgVars, circuit, iteration, starting_point, converged,
                   optimal_params, result, raised, sessVars, remove_calls,
                   solve_calls, outsideWf>>

\* line 73: counts = solver.solve(qc), the backend returning response
GgaeSolverSolve ==
    /\ workflow = "default"
    /\ pc = "solver.solve"
    /\ \E response \in SamplerOutcomes :
           last_counts' = SolverSolve(response)
    /\ solve_calls' = solve_calls + 1
    /\ eval_calls' = Append(eval_calls, "solver.solve")
    /\ pc' = "calculate_energy"
    /\ UNCHANGED <<cfgVars, circuit, iteration, starting_point, cost_evals,
                   converged, optimal_params, last_params, result, raised,
                   sessVars, remove_calls, update_calls, last_qc, cost,
                   outsideWf>>

\* line 73 when solver.solve raises: calculate_energy is not reached and
\* the exception leaves scipy.optimize.minimize and the workflow.
GgaeSolverSolveRaises ==
    /\ workflow = "default"
    /\ pc = "solver.solve"
    /\ solve_calls' = solve_calls + 1
    /\ eval_calls' = Append(eval_calls, "solver.solve")
    /\ raised' = ProviderError
    /\ pc' = "raised"
    /\ UNCHANGED <<cfgVars, circuit, iteration, starting_point, cost_evals,
                   converged, optimal_params, last_params, last_counts,
                   result, sessVars, remove_calls, update_calls, last_qc,
                   cost, outsideWf>>

\* A plausible bug: the energy taken from the first entry of the histogram
\* alone.
GgaeCalculateEnergy_FirstEntry ==
    /\ workflow = "default"
    /\ pc = "calculate_energy"
    /\ cost' = CalculateEnergy(<<Head(last_counts)>>, Shots, qubo)
    /\ iteration' = iteration + 1
    /\ eval_calls' = Append(eval_calls, "calculate_energy")
    /\ pc' = "minimize"
    /\ UNCHANGED <<cfgVars, circuit, starting_point, cost_evals, converged,
                   optimal_params, last_params, last_counts, result, raised,
                   sessVars, remove_calls, update_calls, solve_calls,
                   last_qc, outsideWf>>

\* lines 74-78: cost = calculate_energy(counts, shots, algorithm_instance),
\* which increments algorithm_instance.iteration; cost_function returns.
GgaeCalculateEnergy ==
    /\ workflow = "default"
    /\ pc = "calculate_energy"
    /\ cost' = CalculateEnergy(last_counts, Shots, qubo)
    /\ iteration' = iteration + 1
    /\ eval_calls' = Append(eval_calls, "calculate_energy")
    /\ pc' = "minimize"
    /\ UNCHANGED <<cfgVars, circuit, starting_point, cost_evals, converged,
                   optimal_params, last_params, last_counts, result, raised,
                   sessVars, remove_calls, update_calls, solve_calls,
                   last_qc, outsideWf>>

\* lines 81-87: sp.optimize.minimize returns; optimization_result.success
\* is not read.
GgaeMinimizeReturns ==
    /\ workflow = "default"
    /\ pc = "minimize"
    /\ cost_evals >= 1
    /\ optimal_params' \in ParamVectors
    /\ converged' \in BOOLEAN
    /\ pc' = "final_submission"
    /\ UNCHANGED <<cfgVars, circuit, iteration, starting_point, cost_evals,
                   last_params, last_counts, result, raised, sessVars,
                   ggaeVars, outsideWf>>

\* A plausible bug: returning the histogram of the last cost evaluation
\* instead of submitting the optimum once more.
GgaeFinalSubmission_NoResubmit ==
    /\ workflow = "default"
    /\ pc = "final_submission"
    /\ result' = last_counts
    /\ pc' = "done"
    /\ UNCHANGED <<cfgVars, circuit, iteration, starting_point, cost_evals,
                   converged, optimal_params, last_params, last_counts,
                   raised, sessVars, ggaeVars, outsideWf>>

\* lines 88-91: qc = update_params(optimal_params);
\* opt_counts = solver.solve(qc); return opt_counts
GgaeFinalSubmission ==
    /\ workflow = "default"
    /\ pc = "final_submission"
    /\ \E response \in SamplerOutcomes :
           /\ Submit(optimal_params, response)
           /\ result' = SolverSolve(response)
    /\ pc' = "done"
    /\ UNCHANGED <<cfgVars, circuit, iteration, starting_point, cost_evals,
                   converged, optimal_params, raised, sessVars, remove_calls,
                   eval_calls, cost, outsideWf>>

GgaeFinalSubmissionRaises ==
    /\ workflow = "default"
    /\ pc = "final_submission"
    /\ SubmitRaises(optimal_params)
    /\ pc' = "raised"
    /\ UNCHANGED <<cfgVars, circuit, iteration, starting_point, cost_evals,
                   converged, optimal_params, last_counts, result, sessVars,
                   remove_calls, eval_calls, cost, outsideWf>>

GgaeNext ==
    \/ GgaeGetAlgorithm
    \/ GgaeRemoveParameters
    \/ GgaeGetStartingPoint
    \/ GgaeCostFunction
    \/ GgaeSolverSolve
    \/ GgaeSolverSolveRaises
    \/ GgaeCalculateEnergy
    \/ GgaeMinimizeReturns
    \/ GgaeFinalSubmission
    \/ GgaeFinalSubmissionRaises

SpecGGAE == GgaeInit /\ [][GgaeNext]_vars

(***************************************************************************)
(* update_params (algorithms/qaoa.py) and replace_params                   *)
(* (utils/circuit_utils.py) called on their own                            *)
(***************************************************************************)
\* layers of the VQE ansatz explored
MaxLayers == 1
\* largest number of successive calls on one algorithm object
MaxUpdates == 2

\* len(params) of a 0-indexed vector
PLen(params) == Cardinality(DOMAIN params)

\* VQE.get_starting_point: n + 4 * (n - 1) * layers placeholders
VqeNumParams(n, layers) == n + 4 * (n - 1) * layers

RyLine(k, qubit) ==
    Line("ry", <<qubit>>, Placeholder("ry_angle_", k, Factor(1, 1)))

\* VQE.create_circuit, lines 76-103 (the text kept in self.ansatz)
VqeCircuit(n, layers) ==
    << Line("qreg", <<n>>, NoAngle), Line("creg", <<n>>, NoAngle) >>
    \o [i \in 1..n |-> RyLine(i - 1, i - 1)]
    \o Flatten([b \in 1..(layers * (n - 1)) |->
          LET i == (b - 1) % (n - 1)
              k == n + 4 * (b - 1)
          IN << Line("cx", <<i, i + 1>>, NoAngle),
                RyLine(k, i), RyLine(k + 1, i + 1),
                Line("cx", <<i, i + 1>>, NoAngle),
                RyLine(k + 2, i), RyLine(k + 3, i + 1) >>])
    \o [i \in 1..n |-> Line("measure", <<i - 1>>, NoAngle)]

\* What the loop of VQE.update_params (lines 123-125) leaves for the angle
\* ry_angle_<k>, k < 100: str.replace runs for pc = 0, 1, ... and replaces
\* every occurrence of "ry_angle_<pc>", so the first pc whose decimal form
\* is a prefix of that of k does the replacement; for k >= 10 that is the
\* leading digit, the last digit staying behind the substituted value.
VqeReplaceAngle(angle, params) ==
    IF angle.kind # "ry_angle_" THEN angle
    ELSE IF angle.index >= 10 /\ (angle.index \div 10) \in DOMAIN params
    THEN [kind |-> "value", value |-> params[angle.index \div 10],
          suffix |-> angle.index % 10, factor |-> angle.factor]
    ELSE IF angle.index < 10 /\ angle.index \in DOMAIN params
    THEN Value(params[angle.index], angle.factor)
    ELSE angle

\* VQE.update_params, lines 122-126: a str.replace per given value, no
\* check of len(params), no check of what is left in the text
VqeUpdateParams(ansatz, params) ==
    [raised |-> FALSE,
     text |-> [i \in 1..Len(ansatz) |->
                 [ansatz[i] EXCEPT
                     !.angle = VqeReplaceAngle(ansatz[i].angle, params)]]]

\* replace_params(circuit, params) as called: the text or IndexError
ReplaceParamsCall(text, params) ==
    IF ReplaceParamsRaises(text, params)
    THEN [raised |-> TRUE, type |-> "IndexError"]
    ELSE [raised |-> FALSE, text |-> ReplaceParams(text, params)]

\* A plausible bug: the arity check left out.
QaoaUpdateParams_NoArityCheck(circ, num, params) ==
    ReplaceParamsCall(circ, params)

\* QAOA.update_params, lines 145-148
QaoaUpdateParams(circ, num, params) ==
    IF PLen(params) # num
    THEN [raised |-> TRUE, type |-> "ValueError",
          message |-> <<"Expected", num, "parameters, got", PLen(params)>>]
    ELSE ReplaceParamsCall(circ, params)

\* the QUBOs of the algorithm objects explored: with and without a
\* quadratic term
AlgorithmQubos == {WorkflowQubo, [WorkflowQubo EXCEPT !.quad = 0]}

\* the `params` arguments explored: every length up to one more than n
ParamArgs(n, vals) == UNION {[0..(k - 1) -> vals] : k \in 0..(n + 1)}

\* The receivers of the three substitutions: a QAOA object as
\* QAOA.__init__ leaves it (qaoa.py lines 45-61), with its circuit as
\* created or after remove_parameters; a circuit text handed to
\* replace_params directly; and the ansatz text VQE.update_params reads
\* from self.ansatz.  VQE.__init__ raises before it assigns ansatz
\* (VqeNew), so the last is the method explored as a function of the text
\* create_circuit builds and of params, the text being the only thing it
\* reads from its receiver.
ParamsInit ==
    /\ algorithm \in {"qaoa", "replace_params", "vqe.update_params"}
    /\ qubo \in AlgorithmQubos
    /\ \E removed \in BOOLEAN :
          LET qc == QaoaCircuit(qubo, NQubits, MaxP, StandardMixer)
          IN alg_circuit =
                IF algorithm = "vqe.update_params"
                THEN VqeCircuit(NQubits, MaxLayers)
                ELSE IF removed THEN RemoveParameters(qc) ELSE qc
    /\ alg_num_params = IF algorithm = "vqe.update_params"
                        THEN VqeNumParams(NQubits, MaxLayers)
                        ELSE 2 * MaxP
    /\ up_params = <<>> /\ up_result = None /\ up_calls = 0
    /\ sample_counts = None /\ shots = 0 /\ energy = None /\ epc = "idle"
    /\ WfIdle /\ SessIdle /\ GGAEIdle /\ ExtractIdle /\ workflow = None
    /\ FactoryIdle /\ InspIdle /\ ComponentIdle

\* A plausible bug: update_params keeps the substituted text as the
\* object's circuit.
QaoaUpdateParamsCall_StoresText ==
    /\ algorithm = "qaoa"
    /\ up_calls < MaxUpdates
    /\ \E params \in ParamArgs(alg_num_params, {0, 1}) :
          /\ up_params' = params
          /\ up_result' = QaoaUpdateParams(alg_circuit, alg_num_params,
                                           params)
    /\ alg_circuit' = IF up_result'.raised THEN alg_circuit
                      ELSE up_result'.text
    /\ up_calls' = up_calls + 1
    /\ UNCHANGED <<wfVars, sessVars, ggaeVars, extractVars, solveVars,
                   energyVars, factoryVars, credVars, inspVars, componentVars,
                   algorithm,
                   alg_num_params>>

\* algorithm_instance.update_params(params) on a QAOA object
QaoaUpdateParamsCall ==
    /\ algorithm = "qaoa"
    /\ up_calls < MaxUpdates
    /\ \E params \in ParamArgs(alg_num_params, {0, 1}) :
          /\ up_params' = params
          /\ up_result' = QaoaUpdateParams(alg_circuit, alg_num_params,
                                           params)
    /\ up_calls' = up_calls + 1
    /\ UNCHANGED <<wfVars, sessVars, ggaeVars, extractVars, solveVars,
                   energyVars, factoryVars, credVars, inspVars, componentVars,
                   algorithm, alg_circuit,
                   alg_num_params>>

\* VQE.update_params(params) applied to the ansatz text
VqeUpdateParamsCall ==
    /\ algorithm = "vqe.update_params"
    /\ up_calls < MaxUpdates
    /\ \E params \in ParamArgs(alg_num_params, {1}) :
          /\ up_params' = params
          /\ up_result' = VqeUpdateParams(alg_circuit, params)
    /\ up_calls' = up_calls + 1
    /\ UNCHANGED <<wfVars, sessVars, ggaeVars, extractVars, solveVars,
                   energyVars, factoryVars, credVars, inspVars, componentVars,
                   algorithm, alg_circuit,
                   alg_num_params>>

\* replace_params(circuit, params) called directly
ReplaceParamsDirectCall ==
    /\ algorithm = "replace_params"
    /\ up_calls < MaxUpdates
    /\ \E params \in ParamArgs(alg_num_params, {0, 1}) :
          /\ up_params' = params
          /\ up_result' = ReplaceParamsCall(alg_circuit, params)
    /\ up_calls' = up_calls + 1
    /\ UNCHANGED <<wfVars, sessVars, ggaeVars, extractVars, solveVars,
                   energyVars, factoryVars, credVars, inspVars, componentVars,
                   algorithm, alg_circuit,
                   alg_num_params>>

ParamsNext ==
    \/ QaoaUpdateParamsCall
    \/ VqeUpdateParamsCall
    \/ ReplaceParamsDirectCall

SpecParams == ParamsInit /\ [][ParamsNext]_vars

\* Either workflow, chosen by options.workflow as QModel.solve does.
WorkflowsInit == SessInit \/ GgaeInit

WorkflowsNext == SessNext \/ GgaeNext

SpecWorkflows == WorkflowsInit /\ [][WorkflowsNext]_vars

(***************************************************************************)
(* Claims about the workflows                                              *)
(***************************************************************************)

\* C1 as stated: an IBM-session run with max_iter = 10 that completes has
\* called pass_manager.run exactly once and compute_counts exactly 11 times.
C1_ExactlyElevenBinds ==
    (pc = "done" /\ max_iter = 10) =>
        (transpile_calls = 1 /\ compute_counts_calls = 11)

\* C1 amended: pass_manager.run is called exactly once, before the first
\* cost evaluation, and compute_counts is called once per cost evaluation
\* the optimizer makes plus exactly once for the final submission: k + 1
\* calls in a completed run of k >= 1 evaluations.  With the default
\* optimizer COBYLA k is at most max_iter; with another optimizer it need
\* not be.
C1_TranspileOnceBindPerEval ==
    /\ transpile_calls <= 1
    /\ (compute_counts_calls > 0 \/ cost_evals > 0 => transpile_calls = 1)
    /\ (pc \in {"minimize", "final_submission"} =>
           compute_counts_calls = cost_evals)
    /\ (pc = "done" =>
           /\ transpile_calls = 1
           /\ cost_evals >= 1
           /\ compute_counts_calls = cost_evals + 1)
    /\ (optimizer = "COBYLA" => cost_evals <= max_iter)

\* C1 witness: a run with max_iter = 10 whose optimizer, not COBYLA, made
\* more than ten evaluations: it has completed with 12 compute_counts
\* calls.
C1_Witness ==
    /\ pc = "done" /\ max_iter = 10 /\ optimizer # "COBYLA"
    /\ cost_evals = 11
    /\ compute_counts_calls = 12 /\ transpile_calls = 1

\* C2: once transpiled, isa_circuit never changes; every compute_counts
\* call receives isa_circuit itself and runs a new circuit that is
\* isa_circuit with {theta_i: params[i]} bound.
C2_TranspiledCircuitNotMutated ==
    [][transpile_calls > 0 =>
         /\ isa_circuit' = isa_circuit
         /\ (compute_counts_calls' > compute_counts_calls =>
                /\ cc_qc' = isa_circuit
                /\ bound_vqc' = Bind(isa_circuit, ParamsDict(last_params')))]_vars

\* C2 witness: a completed run whose final submission bound other values
\* than the starting point, the transpiled circuit still unbound.
C2_Witness ==
    /\ pc = "done" /\ session_open = FALSE /\ cost_evals >= 2
    /\ isa_circuit.parameters = ParamIndex
    /\ bound_vqc.parameters = {}
    /\ last_params # starting_point

\* C3: when ggae_workflow has returned, whether or not the minimizer
\* converged, the last adapter call was made with the circuit holding the
\* minimizer's returned parameters, it came after the cost evaluations,
\* exactly once, and its histogram is what the workflow returned.
C3_FinalSubmissionReturned ==
    pc = "done" =>
        /\ solve_calls = cost_evals + 1
        /\ update_calls = cost_evals + 1
        /\ last_params = optimal_params
        /\ last_qc = ReplaceParams(circuit, optimal_params)
        /\ result = last_counts

\* C3 witness: a run that returned after a minimizer that did not converge.
C3_Witness ==
    /\ pc = "done" /\ converged = FALSE /\ cost_evals = max_iter
    /\ solve_calls = max_iter + 1

\* C5 as stated: a failed adapter call reaches the caller as
\* BackendExecutionError carrying the provider's message, and no further
\* adapter call is made.
C5_BackendExecutionError ==
    pc = "raised" =>
        /\ raised.type = "BackendExecutionError"
        /\ raised.message = ProviderError.message
        /\ solve_calls <= cost_evals + 1

(***************************************************************************)
(* QModel.solve (model/qmodel.py)                                          *)
(***************************************************************************)
\* largest number of solve calls on one model
MaxSolves == 2

NoSolution == [attached |-> FALSE]

\* The models solved: one all-binary, one with an integer variable.
SolveModels ==
    IntegerModels \cup
    {m \in BinaryModels : /\ m.quad = <<>> /\ m.sense = "max"
                          /\ \A i \in 1..NVars : m.linear[i][2] = 2}

\* "rigetti" stands for any provider name ProviderType does not know.
Providers == {"d-wave", "ibmq", "braket", "rigetti"}

\* the values a front-end or an annealer can report for the variables
Assignments(m) ==
    [1..NVars -> 0..(Pow2(IntBits) - 1)] \cap
    {a \in [1..NVars -> 0..(Pow2(IntBits) - 1)] :
        \A i \in 1..NVars : m.vartypes[i] = "B" => a[i] \in {0, 1}}

\* the histograms a gate-based workflow can return for the model
WorkflowCounts(m) == {<< <<b, Shots>> >> : b \in [1..QuboBits(m) -> {0, 1}]}

\* line 95: SolveMethod(method), the Enum lookup
SolveMethod(meth) ==
    IF meth \in {"classical", "quantum"}
    THEN [raised |-> FALSE, value |-> meth]
    ELSE [raised |-> TRUE, type |-> "ValueError",
          message |-> "'invalid' is not a valid SolveMethod"]

\* lines 110-114: ProviderType(config.provider), then
\* SolverFactory.get_solver with self.quantum_api_tokens
GetSolver(prov, toks) ==
    IF prov \notin {"d-wave", "ibmq", "braket"}
    THEN [raised |-> TRUE, type |-> "ValueError",
          message |-> "'rigetti' is not a valid ProviderType"]
    ELSE IF prov = "d-wave" /\ "d-wave_token" \notin toks
    THEN [raised |-> TRUE, type |-> "RuntimeError",
          message |-> "Missing credentials for d-wave"]
    ELSE IF prov = "ibmq" /\ "ibmq_token" \notin toks
    THEN [raised |-> TRUE, type |-> "RuntimeError",
          message |-> "Missing credentials for ibmq"]
    ELSE [raised |-> FALSE, solver |-> prov]

\* A plausible bug: `or` for `and` in the session test of line 117.
WorkflowBranch_Or(prov, wf) ==
    IF prov = "d-wave" THEN "solver.solve"
    ELSE IF prov = "ibmq" \/ wf = "ibm_session" THEN "ibm_session_workflow"
    ELSE "ggae_workflow"

\* lines 115, 117, 124: the branch of the quantum method
WorkflowBranch(prov, wf) ==
    IF prov = "d-wave" THEN "solver.solve"
    ELSE IF prov = "ibmq" /\ wf = "ibm_session" THEN "ibm_session_workflow"
    ELSE "ggae_workflow"

Abs(v) == IF v < 0 THEN 0 - v ELSE v

\* DWaveSolver.parse_response of the best sample: the sampler minimizes,
\* the objective of a maximization having been negated.
DWaveResult(m, sample) ==
    LET response_energy ==
            IF m.sense = "max" THEN 0 - ObjectiveValue(m, sample)
            ELSE ObjectiveValue(m, sample)
    IN [raised |-> FALSE, objective |-> Abs(response_energy),
        solution |-> sample]

\* _create_solution, lines 147-173
CreateSolution(meth, prov, res) ==
    [attached |-> TRUE, solution |-> res.solution,
     objective |-> res.objective, method |-> meth, provider |-> prov]

SolveInit ==
    /\ model \in SolveModels
    /\ tokens \in SUBSET {"d-wave_token", "ibmq_token"}
    /\ spc = "idle" /\ method = None /\ workflow = None
    /\ trace = <<>> /\ solve_count = 0 /\ solve_result = None
    /\ solution = None /\ qmodel_solution = NoSolution
    /\ solve_raised = None
    /\ optimal_counts = None /\ interpret = FALSE /\ interpreter = None
    /\ extracted = None /\ xpc = "idle"
    /\ WfIdle /\ SessIdle /\ GGAEIdle /\ UnitIdle

\* model.solve(method, config) is called.
SolveEnter ==
    /\ spc \in {"idle", "returned", "raised"}
    /\ solve_count < MaxSolves
    /\ method' \in {"classical", "quantum", "invalid"}
    /\ provider' \in Providers
    /\ workflow' \in {"default", "ibm_session"}
    /\ solve_count' = solve_count + 1
    /\ token_reads' = 0
    /\ trace' = <<>>
    /\ solve_raised' = None
    /\ spc' = "solve_method"
    /\ UNCHANGED <<pc, max_iter, optimizer, circuit, iteration,
                   starting_point,
                   cost_evals, converged, optimal_params, last_params,
                   last_counts, result, raised, sessVars, ggaeVars,
                   extractVars, energyVars, paramVars, factoryVars, inspVars, componentVars,
                   saved_accounts, tokens, solve_result, solution,
                   qmodel_solution>>

\* line 95 with a valid method: on to the branch of lines 98 / 104
SolveMethodValid ==
    /\ spc = "solve_method"
    /\ ~SolveMethod(method).raised
    /\ spc' = SolveMethod(method).value
    /\ UNCHANGED <<unitVars, wfVars, sessVars, ggaeVars, extractVars, method, workflow,
                   tokens, trace, solve_count, solve_result, solution,
                   qmodel_solution, solve_raised>>

\* line 95 with any other method: the Enum lookup raises.
SolveMethodInvalid ==
    /\ spc = "solve_method"
    /\ SolveMethod(method).raised
    /\ solve_raised' = SolveMethod(method)
    /\ spc' = "raised"
    /\ UNCHANGED <<unitVars, wfVars, sessVars, ggaeVars, extractVars, method, workflow,
                   tokens, trace, solve_count, solve_result, solution,
                   qmodel_solution>>

\* lines 99-103: super().solve() returns; _create_solution reads the
\* variables' values and the objective value from the front-end.
SolveClassical ==
    /\ spc = "classical"
    /\ \E values \in Assignments(model) :
           solution' = CreateSolution(method, None,
                           [solution |-> values,
                            objective |-> ObjectiveValue(model, values)])
    /\ trace' = trace \o <<"Model.solve", "_create_solution">>
    /\ spc' = "set_solution"
    /\ UNCHANGED <<unitVars, wfVars, sessVars, ggaeVars, extractVars, method, workflow,
                   tokens, solve_count, solve_result, qmodel_solution,
                   solve_raised>>

\* The object the front-end hands to its own _set_solution: a SolveSolution
\* of the front-end, which has no attribute `solution`.
FrontEndSolution == [attached |-> TRUE, class |-> "SolveSolution"]

\* line 99 when the front-end's Model.solve stores its result with
\* self._set_solution(new_solution): the call dispatches to the override of
\* lines 175-191, line 186 assigns the front-end's object to
\* _qmodel_solution and line 188 (solution.solution) raises AttributeError.
\* Whether Model.solve makes that call is the library's choice, so this
\* step and SolveClassical are both enabled.
SolveClassicalDispatches ==
    /\ spc = "classical"
    /\ qmodel_solution' = FrontEndSolution
    /\ trace' = Append(trace, "Model.solve")
    /\ solve_raised' = [raised |-> TRUE, type |-> "AttributeError",
                        message |-> "object has no attribute 'solution'"]
    /\ spc' = "raised"
    /\ UNCHANGED <<unitVars, wfVars, sessVars, ggaeVars, extractVars, method, workflow,
                   tokens, solve_count, solve_result, solution>>

\* line 99 when the front-end's solve raises
SolveClassicalRaises ==
    /\ spc = "classical"
    /\ trace' = Append(trace, "Model.solve")
    /\ solve_raised' = [raised |-> TRUE, type |-> "DOcplexException",
                        message |-> "front-end message"]
    /\ spc' = "raised"
    /\ UNCHANGED <<unitVars, wfVars, sessVars, ggaeVars, extractVars, method, workflow,
                   tokens, solve_count, solve_result, solution,
                   qmodel_solution>>

\* lines 105-114: the solver is created.
SolveGetSolver ==
    /\ spc = "quantum"
    /\ ~GetSolver(provider, tokens).raised
    /\ trace' = Append(trace, "get_solver")
    /\ token_reads' = token_reads + (IF provider = "braket" THEN 0 ELSE 1)
    /\ saved_accounts' = (IF provider = "ibmq"
                          THEN saved_accounts \cup {"ibmq_token"}
                          ELSE saved_accounts)
    /\ spc' = WorkflowBranch(provider, workflow)
    /\ UNCHANGED <<energyVars, paramVars, factoryVars, inspVars, componentVars, wfVars,
                   sessVars, ggaeVars, extractVars, method, workflow,
                   tokens, solve_count, solve_result, solution,
                   qmodel_solution, solve_raised>>

\* lines 110-114 raising.  ProviderType(config.provider) is an argument of
\* the call (line 111): for an unknown provider it raises before get_solver
\* is entered.  For a known provider get_solver is entered and raises
\* inside (solver_factory.py line 94, missing credentials).
SolveGetSolverRaises ==
    /\ spc = "quantum"
    /\ GetSolver(provider, tokens).raised
    /\ solve_raised' = GetSolver(provider, tokens)
    /\ trace' = (IF provider \in {"d-wave", "ibmq", "braket"}
                 THEN Append(trace, "get_solver") ELSE trace)
    /\ token_reads' =
          token_reads + (IF provider \in {"d-wave", "ibmq"} THEN 1 ELSE 0)
    /\ spc' = "raised"
    /\ UNCHANGED <<energyVars, paramVars, factoryVars, inspVars, componentVars,
                   saved_accounts, wfVars, sessVars, ggaeVars, extractVars,
                   method, workflow,
                   tokens, solve_count, solve_result, solution,
                   qmodel_solution>>

\* DWaveSolver.solve of a model without constraints that has an integer
\* variable: parse_input (dwave_solver.py lines 165-170) builds a
\* DiscreteQuadraticModel and parse_objective (lines 194-197) calls its
\* add_variable with lower_bound and upper_bound, keywords dimod's
\* DiscreteQuadraticModel.add_variable(num_cases, label) does not take.
DWaveSolveRaises(m) == \E i \in 1..NVars : m.vartypes[i] = "I"

DWaveTypeError ==
    [type |-> "TypeError",
     message |-> "add_variable() got an unexpected keyword argument"]

\* line 116: result = solver.solve(self), the annealing adapter
SolveDWave ==
    /\ spc = "solver.solve"
    /\ ~DWaveSolveRaises(model)
    /\ \E sample \in Assignments(model) :
           solve_result' = DWaveResult(model, sample)
    /\ trace' = Append(trace, "solver.solve")
    /\ spc' = "create_solution"
    /\ UNCHANGED <<unitVars, wfVars, sessVars, ggaeVars, extractVars, method, workflow,
                   tokens, solve_count, solution, qmodel_solution,
                   solve_raised>>

\* lines 118-121: optimal_counts = ibm_session_workflow(...)
SolveIbmSessionWorkflow ==
    /\ spc = "ibm_session_workflow"
    /\ optimal_counts' \in WorkflowCounts(model)
    /\ trace' = Append(trace, "ibm_session_workflow")
    /\ spc' = "get_solution_from_counts"
    /\ UNCHANGED <<unitVars, wfVars, sessVars, ggaeVars, model, interpret, interpreter,
                   extracted, xpc, method, workflow, tokens, solve_count,
                   solve_result, solution, qmodel_solution, solve_raised>>

\* lines 125-127: optimal_counts = ggae_workflow(...)
SolveGgaeWorkflow ==
    /\ spc = "ggae_workflow"
    /\ optimal_counts' \in WorkflowCounts(model)
    /\ trace' = Append(trace, "ggae_workflow")
    /\ spc' = "get_solution_from_counts"
    /\ UNCHANGED <<unitVars, wfVars, sessVars, ggaeVars, model, interpret, interpreter,
                   extracted, xpc, method, workflow, tokens, solve_count,
                   solve_result, solution, qmodel_solution, solve_raised>>

\* lines 116, 118, 125 when the adapter or the workflow raises (a failed
\* adapter call, a cancellation): nothing in solve catches it.
SolveWorkflowRaises ==
    /\ spc \in {"solver.solve", "ibm_session_workflow", "ggae_workflow"}
    /\ ~(spc = "solver.solve" /\ DWaveSolveRaises(model))
    /\ trace' = Append(trace, spc)
    /\ solve_raised' = [raised |-> TRUE, type |-> ProviderError.type,
                        message |-> ProviderError.message]
    /\ spc' = "raised"
    /\ UNCHANGED <<unitVars, wfVars, sessVars, ggaeVars, extractVars, method, workflow,
                   tokens, solve_count, solve_result, solution,
                   qmodel_solution>>

\* line 116 for a model the annealing adapter cannot parse: the TypeError
\* of parse_input leaves solve before anything is sampled.
SolveDWaveRaises ==
    /\ spc = "solver.solve"
    /\ DWaveSolveRaises(model)
    /\ trace' = Append(trace, spc)
    /\ solve_raised' = [raised |-> TRUE, type |-> DWaveTypeError.type,
                        message |-> DWaveTypeError.message]
    /\ spc' = "raised"
    /\ UNCHANGED <<unitVars, wfVars, sessVars, ggaeVars, extractVars, method, workflow,
                   tokens, solve_count, solve_result, solution,
                   qmodel_solution>>

\* lines 122-123 and 128-130:
\* result = get_solution_from_counts(model=self, optimal_counts=...),
\* interpret and interpreter left at their defaults
SolveGetSolutionFromCounts ==
    /\ spc = "get_solution_from_counts"
    /\ interpret' = FALSE
    /\ interpreter' = None
    /\ extracted' = GetSolutionFromCounts(model, optimal_counts, FALSE, None)
    /\ solve_result' = extracted'
    /\ trace' = Append(trace, "get_solution_from_counts")
    /\ spc' = "create_solution"
    /\ UNCHANGED <<unitVars, wfVars, sessVars, ggaeVars, model, optimal_counts, xpc,
                   method, workflow, tokens, solve_count, solution,
                   qmodel_solution, solve_raised>>

\* lines 132-139: solution = self._create_solution(...)
SolveCreateSolution ==
    /\ spc = "create_solution"
    /\ solution' = CreateSolution(method, provider, solve_result)
    /\ trace' = Append(trace, "_create_solution")
    /\ spc' = "set_solution"
    /\ UNCHANGED <<unitVars, wfVars, sessVars, ggaeVars, extractVars, method, workflow,
                   tokens, solve_count, solve_result, qmodel_solution,
                   solve_raised>>

\* line 145 and lines 175-191: self._set_solution(solution)
SolveSetSolution ==
    /\ spc = "set_solution"
    /\ qmodel_solution' = solution
    /\ trace' = Append(trace, "_set_solution")
    /\ spc' = "returned"
    /\ UNCHANGED <<unitVars, wfVars, sessVars, ggaeVars, extractVars, method, workflow,
                   tokens, solve_count, solve_result, solution, solve_raised>>

\* line 145 and lines 175-191 when the front-end raises in
\* SolveSolution(...) (lines 187-190) or in super()._set_solution (line
\* 191): line 186 has already assigned _qmodel_solution, and nothing
\* restores it.
SolveSetSolutionRaises ==
    /\ spc = "set_solution"
    /\ qmodel_solution' = solution
    /\ trace' = Append(trace, "_set_solution")
    /\ solve_raised' = [raised |-> TRUE, type |-> "DOcplexException",
                        message |-> "front-end message"]
    /\ spc' = "raised"
    /\ UNCHANGED <<unitVars, wfVars, sessVars, ggaeVars, extractVars, method, workflow,
                   tokens, solve_count, solve_result, solution>>

SolveNext ==
    \/ SolveEnter
    \/ SolveMethodValid
    \/ SolveMethodInvalid
    \/ SolveClassical
    \/ SolveClassicalDispatches
    \/ SolveClassicalRaises
    \/ SolveGetSolver
    \/ SolveGetSolverRaises
    \/ SolveDWave
    \/ SolveDWaveRaises
    \/ SolveIbmSessionWorkflow
    \/ SolveGgaeWorkflow
    \/ SolveWorkflowRaises
    \/ SolveGetSolutionFromCounts
    \/ SolveCreateSolution
    \/ SolveSetSolution
    \/ SolveSetSolutionRaises

SpecSolve == SolveInit /\ [][SolveNext]_vars

(***************************************************************************)
(* Claims about the result extractor                                       *)
(***************************************************************************)
\* a before b in lexicographic order
LexLess(a, b) ==
    \E i \in 1..Len(a) :
        /\ a[i] < b[i]
        /\ \A j \in 1..(i - 1) : a[j] = b[j]

\* the lexicographically smallest of the keys holding the largest count
MostFrequentLexMin(counts) ==
    LET top == {i \in 1..Len(counts) :
                  \A j \in 1..Len(counts) : counts[j][2] <= counts[i][2]}
        i == CHOOSE k \in top :
                 \A j \in top \ {k} : LexLess(counts[k][1], counts[j][1])
    IN counts[i][1]

\* C8 as stated: the extractor's solution is read from the most frequent
\* bitstring, the lexicographically smallest one when several share the
\* largest count.
C8_LexicographicTieBreak ==
    (xpc = "returned" /\ ~interpret) =>
        extracted.solution =
            [i \in 1..NVars |-> MostFrequentLexMin(optimal_counts)[i]]

RECURSIVE SumOver(_, _)
SumOver(f, S) ==
    IF S = {} THEN 0
    ELSE LET k == CHOOSE x \in S : TRUE IN f[k] + SumOver(f, S \ {k})

\* C9: without an interpreter, variable i gets bit i of the chosen
\* bitstring and the objective is the sum of c_i * x_i over the linear
\* terms plus the sum of q * x_i * x_j over the quadratic triplets of the
\* model's own objective, whatever its sense.
C9_DirectMappingAndObjective ==
    (xpc = "returned" /\ ~interpret) =>
        LET b == MaxByCount(optimal_counts)[1]
            x == extracted.solution
            lin == model.linear
            quad == model.quad
        IN /\ DOMAIN x = 1..NVars
           /\ \A i \in 1..NVars : x[i] = b[i]
           /\ extracted.objective =
                  SumOver([k \in DOMAIN lin |-> lin[k][2] * b[lin[k][1]]],
                          DOMAIN lin)
                  + SumOver([k \in DOMAIN quad |->
                                quad[k][3] * b[quad[k][1]] * b[quad[k][2]]],
                            DOMAIN quad)

\* C9 witness: a maximization with a quadratic term, extracted without
\* interpretation from a two-entry histogram, with a nonzero objective.
C9_Witness ==
    /\ xpc = "returned" /\ ~interpret
    /\ model.sense = "max" /\ Len(model.quad) = 1
    /\ Len(optimal_counts) = 2
    /\ extracted.objective # 0
    /\ extracted.solution = [i \in 1..NVars |-> 1]


(***************************************************************************)
(* Claims about QModel.solve                                               *)
(***************************************************************************)
RECURSIVE CountOf(_, _)
CountOf(seq, name) ==
    IF seq = <<>> THEN 0
    ELSE (IF seq[1] = name THEN 1 ELSE 0) + CountOf(Tail(seq), name)

\* C4: a ModelSolution is attached to the model only by the last step of
\* solve, after the solver or workflow and the extraction have completed,
\* and exactly once in a call that returns; a solve that raises, in any of
\* its steps, attaches nothing and leaves the attached solution, if any, as
\* it was.
C4_SolutionAttachedOnceAtEnd ==
    [][/\ (qmodel_solution' # qmodel_solution =>
              /\ spc = "set_solution" /\ spc' = "returned"
              /\ qmodel_solution' = solution
              /\ "_create_solution" = trace[Len(trace)])
       /\ (spc' = "raised" => qmodel_solution' = qmodel_solution)
       /\ (spc' = "raised" => CountOf(trace', "_set_solution") = 0)
       /\ ((spc # "returned" /\ spc' = "returned") =>
              /\ CountOf(trace', "_set_solution") = 1
              /\ trace'[Len(trace')] = "_set_solution"
              /\ qmodel_solution'.attached)]_vars

QuantumCalls ==
    {"get_solver", "solver.solve", "ibm_session_workflow", "ggae_workflow",
     "get_solution_from_counts"}

ExpectedPath ==
    IF method = "classical"
    THEN <<"Model.solve", "_create_solution", "_set_solution">>
    ELSE IF provider = "d-wave"
    THEN <<"get_solver", "solver.solve", "_create_solution",
           "_set_solution">>
    ELSE IF provider = "ibmq" /\ workflow = "ibm_session"
    THEN <<"get_solver", "ibm_session_workflow", "get_solution_from_counts",
           "_create_solution", "_set_solution">>
    ELSE <<"get_solver", "ggae_workflow", "get_solution_from_counts",
           "_create_solution", "_set_solution">>

\* C6: a quantum solve runs exactly one of the three paths, chosen by the
\* provider and the workflow (d-wave: the solver alone, no extraction from
\* counts; ibmq with ibm_session: the session workflow then the extraction;
\* anything else: the default workflow then the extraction); a classical
\* solve runs none of them and calls the front-end's solve.
C6_ExactlyOnePath ==
    spc \notin {"idle", "solve_method"} =>
        /\ Len(trace) <= Len(ExpectedPath)
        /\ trace = SubSeq(ExpectedPath, 1, Len(trace))
        /\ (spc = "returned" => trace = ExpectedPath)
        /\ (method = "classical" =>
               \A i \in 1..Len(trace) : trace[i] \notin QuantumCalls)

\* a returned quantum solve with provider ibmq and the default workflow
C6_Witness ==
    /\ spc = "returned" /\ method = "quantum" /\ provider = "ibmq"
    /\ workflow = "default"
    /\ CountOf(trace, "ggae_workflow") = 1
    /\ CountOf(trace, "ibm_session_workflow") = 0

\* C7: a method other than 'classical' or 'quantum' raises ValueError with
\* the message "Invalid value for argument 'method'. Must be 'classical' or
\* 'quantum'", and nothing else happens.
C7_InvalidMethodMessage ==
    (spc = "raised" /\ method = "invalid") =>
        /\ solve_raised.type = "ValueError"
        /\ solve_raised.message =
             "Invalid value for argument 'method'. Must be 'classical' or 'quantum'"
        /\ trace = <<>>

\* C10: a gate-based solve of a model with an integer variable reports the
\* decoded integer value of every variable.
C10_DecodedIntegerValues ==
    (/\ spc = "returned" /\ method = "quantum" /\ provider # "d-wave"
     /\ model \in IntegerModels) =>
        qmodel_solution.solution =
            Interpret(model, MaxByCount(optimal_counts)[1])


(***************************************************************************)
(* Claims about calculate_energy                                           *)
(***************************************************************************)
\* the bitstrings that are keys of a histogram
KeysOf(h) == {h[i][1] : i \in 1..Len(h)}

CountOfKey(h, b) == h[CHOOSE i \in 1..Len(h) : h[i][1] = b][2]

RECURSIVE WeightedSum(_, _, _)
\* the sum over the bitstrings b of S of counts[b] * qubo energy of b
WeightedSum(h, q, S) ==
    IF S = {} THEN 0
    ELSE LET b == CHOOSE x \in S : TRUE
         IN CountOfKey(h, b)
               * (q.constant
                  + SumOver([i \in 1..Len(b) |-> q.linear[i] * b[i]],
                            1..Len(b))
                  + q.quad * b[1] * b[Len(b)])
            + WeightedSum(h, q, S \ {b})

\* C11: calculate_energy returns (1/shots) * sum over the bitstrings b of
\* the histogram of counts[b] * qubo_energy(b), the bits taken in string
\* order, and the call adds exactly one to the iteration counter.
C11_EnergyAndIteration ==
    [][epc' = "returned" /\ epc = "call" =>
         /\ energy'.num = WeightedSum(sample_counts, qubo, KeysOf(sample_counts))
         /\ energy'.den = shots
         /\ iteration' = iteration + 1]_vars

\* a call with a histogram of two entries whose total differs from shots,
\* on an objective that tells the first bit from the last
C11_Witness ==
    /\ epc = "returned" /\ Len(sample_counts) = 2
    /\ shots # SumCounts(sample_counts)
    /\ qubo.linear[1] # qubo.linear[NQubits]
    /\ energy.num # 0 /\ energy.den = shots
    /\ iteration = 2


\* C12: a cost evaluation of the default workflow starts only when no other
\* is in progress and makes, in this order and once each, the parameter
\* substitution, one adapter solve on the substituted text and the energy
\* evaluation over the whole histogram that solve returned; the adapter is
\* called once per evaluation, never while another call is outstanding,
\* and after k completed evaluations the iteration counter is k.
C12_SerialCostEvaluation ==
    [][/\ (cost_evals' # cost_evals =>
              /\ pc = "minimize" /\ pc' = "solver.solve"
              /\ cost_evals' = cost_evals + 1
              /\ solve_calls = cost_evals
              /\ update_calls' = update_calls + 1
              /\ solve_calls' = solve_calls
              /\ last_qc' = ReplaceParams(circuit, last_params')
              /\ eval_calls' = <<"update_params">>)
       /\ (pc = "solver.solve" /\ pc' # pc =>
              /\ eval_calls = <<"update_params">>
              /\ solve_calls' = solve_calls + 1
              /\ solve_calls' = cost_evals
              /\ update_calls' = update_calls
              /\ last_qc' = last_qc
              /\ last_qc = ReplaceParams(circuit, last_params)
              /\ eval_calls' = <<"update_params", "solver.solve">>
              /\ iteration' = iteration
              /\ pc' \in {"calculate_energy", "raised"})
       /\ (pc = "calculate_energy" /\ pc' # pc =>
              /\ pc' = "minimize"
              /\ eval_calls' =
                    <<"update_params", "solver.solve", "calculate_energy">>
              /\ cost'.num =
                    WeightedSum(last_counts, qubo, KeysOf(last_counts))
              /\ cost'.den = Shots
              /\ last_counts' = last_counts
              /\ solve_calls' = solve_calls
              /\ update_calls' = update_calls
              /\ iteration' = iteration + 1)
       /\ (pc' \in {"minimize", "final_submission", "done"} =>
              iteration' = cost_evals')
       /\ (pc' \in {"solver.solve", "calculate_energy"} =>
              iteration' = cost_evals' - 1)
       /\ solve_calls' \in {solve_calls, solve_calls + 1}]_vars

\* three completed cost evaluations, the last on a histogram of two
\* entries whose bitstrings have different energies
C12_Witness ==
    /\ pc = "minimize" /\ cost_evals = 3 /\ iteration = 3
    /\ solve_calls = 3 /\ update_calls = 3
    /\ eval_calls = <<"update_params", "solver.solve", "calculate_energy">>
    /\ Len(last_counts) = 2
    /\ cost.num = WeightedSum(last_counts, qubo, KeysOf(last_counts))
    /\ cost.num # Shots * WeightedSum(<<<<last_counts[1][1], 1>>>>, qubo,
                                      {last_counts[1][1]})
    /\ cost.num # Shots * WeightedSum(<<<<last_counts[2][1], 1>>>>, qubo,
                                      {last_counts[2][1]})


RECURSIVE OtherLines(_)
\* the lines of a text that are not parameter declarations, in their order
OtherLines(text) ==
    IF text = <<>> THEN <<>>
    ELSE IF Head(text).op = "input" THEN OtherLines(Tail(text))
    ELSE <<Head(text)>> \o OtherLines(Tail(text))

\* C13: the default workflow removes the parameter declarations exactly
\* once, before the starting point is requested and before any cost
\* evaluation, keeping all other lines in their order; the session workflow
\* never removes them, and the text it parses declares every parameter.
C13_DeclarationsRemovedOnce ==
    [][/\ (remove_calls' # remove_calls =>
              /\ workflow = "default"
              /\ remove_calls = 0 /\ remove_calls' = 1
              /\ pc = "remove_parameters" /\ cost_evals = 0
              /\ circuit' = OtherLines(circuit)
              /\ Len(circuit') = Len(circuit) - num_params)
       /\ ((workflow = "default"
            /\ (pc = "get_starting_point" \/ cost_evals' # cost_evals)) =>
              remove_calls = 1)
       /\ (workflow = "ibm_session" => remove_calls' = 0)
       /\ ((pc = "parse_input" /\ pc' # pc) =>
              /\ workflow = "ibm_session"
              /\ OtherLines(circuit) # circuit
              /\ vqc'.parameters = ParamIndex)]_vars

\* a default run that finished, its circuit without the declarations
C13_Witness ==
    /\ workflow = "default" /\ pc = "done" /\ remove_calls = 1
    /\ cost_evals >= 2
    /\ Len(circuit) = Len(CreateCircuit) - num_params
    /\ circuit = OtherLines(CreateCircuit)


(***************************************************************************)
(* Claims about parameter substitution                                     *)
(***************************************************************************)
\* the text with vector b substituted for its theta placeholders, every
\* other part of every line kept
SubstitutedWith(text, b, out) ==
    /\ Len(out) = Len(text)
    /\ \A i \in 1..Len(text) :
          /\ out[i].op = text[i].op
          /\ out[i].qubits = text[i].qubits
          /\ IF text[i].angle.kind = "theta"
             THEN /\ out[i].angle.kind = "value"
                  /\ out[i].angle.value = b[text[i].angle.index]
                  /\ out[i].angle.factor = text[i].angle.factor
             ELSE out[i].angle = text[i].angle

\* C14: QAOA.update_params never modifies the stored circuit text: a call
\* with the vector of the call before returns the same text, and a call
\* with vector b after a call with another vector returns what a call with
\* b alone returns, the stored text with b substituted.
C14_UpdateParamsKeepsCircuit ==
    [][(algorithm = "qaoa" /\ up_calls' = up_calls + 1) =>
         /\ alg_circuit' = alg_circuit
         /\ alg_circuit' = (IF OtherLines(alg_circuit) = alg_circuit
                            THEN OtherLines(QaoaCircuit(qubo, NQubits, MaxP,
                                                        StandardMixer))
                            ELSE QaoaCircuit(qubo, NQubits, MaxP,
                                             StandardMixer))
         /\ (~up_result'.raised =>
                SubstitutedWith(alg_circuit, up_params', up_result'.text))
         /\ ((up_calls >= 1 /\ up_params' = up_params) =>
                up_result' = up_result)]_vars

\* a second call that returned a text with a value 1 substituted
C14_Witness ==
    /\ algorithm = "qaoa" /\ up_calls = 2
    /\ ~up_result.raised
    /\ PLen(up_params) = alg_num_params /\ up_params[0] = 1
    /\ up_result.text # alg_circuit
    /\ \E i \in 1..Len(alg_circuit) : alg_circuit[i].angle.kind = "theta"

\* C15: QAOA.update_params with a vector whose length is not num_params
\* raises ValueError 'Expected <num_params> parameters, got <len>', returns
\* no text and leaves the stored circuit as it was.
C15_ArityMismatchRaises ==
    [][(/\ algorithm = "qaoa" /\ up_calls' = up_calls + 1
        /\ PLen(up_params') # alg_num_params) =>
         /\ up_result'.raised
         /\ up_result'.type = "ValueError"
         /\ up_result'.message =
               <<"Expected", 2 * MaxP, "parameters, got", PLen(up_params')>>
         /\ "text" \notin DOMAIN up_result'
         /\ alg_circuit' = alg_circuit]_vars

\* a call with one parameter too many raised the arity error
C15_Witness ==
    /\ algorithm = "qaoa" /\ up_calls >= 1
    /\ PLen(up_params) = alg_num_params + 1
    /\ up_result.raised /\ up_result.type = "ValueError"

\* the indices of the placeholders of either spelling a text names
PlaceholdersOf(text) ==
    {text[i].angle.index :
        i \in {j \in 1..Len(text) :
                 text[j].angle.kind \in {"theta", "ry_angle_"}}}

\* C16: parameter substitution, by replace_params, QAOA.update_params or
\* VQE.update_params, never returns a text that still contains a
\* placeholder; when a placeholder has no value, or one is left in the
\* text, an error is raised instead.
C16_NoPlaceholderReturned ==
    /\ (up_calls >= 1 /\ ~up_result.raised) =>
          \A i \in 1..Len(up_result.text) :
              up_result.text[i].angle.kind \notin {"theta", "ry_angle_"}
    /\ (up_calls >= 1
        /\ ~(PlaceholdersOf(alg_circuit) \subseteq DOMAIN up_params))
          => up_result.raised

(***************************************************************************)
(* SolverFactory.get_solver called on its own                              *)
(* (commons/solver_factory.py)                                             *)
(***************************************************************************)
\* The `provider` arguments: the three ProviderType members, and plain
\* strings, which are not ProviderType members even when they spell a
\* member's value.
ProviderArgs ==
    {[is_type |-> TRUE, value |-> v] : v \in {"d-wave", "ibmq", "braket"}}
    \cup
    {[is_type |-> FALSE, value |-> v] : v \in {"unknown_provider", "ibmq"}}

TokenKeys == {"d-wave_token", "ibmq_token"}

\* The `quantum_api_tokens` dictionaries: each key is absent, maps to None,
\* or maps to a token.
TokenDicts == [TokenKeys -> {"absent", "None", "token"}]

\* config.provider_options: None (the dataclass default) or a dictionary
\* with these keys.
ProviderOptions ==
    {[present |-> FALSE, keys |-> {}]} \cup
    {[present |-> TRUE, keys |-> k] :
        k \in {{}, {"num_reads"}, {"optimization_level"},
               {"device_parameters"}}}

\* _TOKEN_MAP
TokenMap(value) ==
    CASE value = "d-wave" -> "d-wave_token"
      [] value = "ibmq" -> "ibmq_token"
      [] OTHER -> None

\* quantum_api_tokens.get(token_key)
DictGet(toks, key) == IF toks[key] = "token" THEN "token" ELSE None

\* the fields DWaveConfig, IMBQConfig and BraketConfig take from
\* provider_options
ConfigFields(value) ==
    CASE value = "d-wave" -> {"time_limit", "num_reads", "topology",
                              "embedding"}
      [] value = "ibmq" -> {"optimization_level"}
      [] value = "braket" -> {"device_parameters"}

SolverClass(value) ==
    CASE value = "d-wave" -> "DWaveSolver"
      [] value = "ibmq" -> "IBMQSolver"
      [] value = "braket" -> "BraketSolver"

\* lines 96-132: build the provider's configuration from
\* config.provider_options, then construct the solver
BuildSolver(value, token, opts, steps) ==
    IF ~opts.present
    THEN [raised |-> TRUE, type |-> "TypeError",
          message |-> <<"argument after ** must be a mapping, not",
                        "NoneType">>,
          steps |-> Append(steps, "provider_options")]
    ELSE IF ~(opts.keys \subseteq ConfigFields(value))
    THEN [raised |-> TRUE, type |-> "TypeError",
          message |-> <<"got an unexpected keyword argument",
                        opts.keys \ ConfigFields(value)>>,
          steps |-> Append(steps, "provider_options")]
    ELSE [raised |-> FALSE,
          solver |-> [class |-> SolverClass(value), token |-> token],
          steps |-> steps \o <<"provider_options", SolverClass(value)>>]

\* A plausible bug: the provider's configuration is built before the
\* credentials are checked.
SolverFactoryGetSolver_OptionsFirst(prov, toks, opts) ==
    IF ~prov.is_type
    THEN [raised |-> TRUE, type |-> "ValueError",
          message |-> <<"Unknown provider:", prov.value>>, steps |-> <<>>]
    ELSE
      LET token_key == TokenMap(prov.value)
          token == IF token_key # None THEN DictGet(toks, token_key)
                   ELSE None
          steps == IF token_key # None THEN <<"tokens.get">> ELSE <<>>
          built == BuildSolver(prov.value, token, opts, steps)
      IN IF built.raised THEN built
         ELSE IF token_key # None /\ token = None
         THEN [raised |-> TRUE, type |-> "RuntimeError",
               message |-> <<"Missing credentials for", prov.value>>,
               steps |-> Append(steps, "provider_options")]
         ELSE built

\* lines 87-134: SolverFactory.get_solver(provider, quantum_api_tokens,
\* config); `steps` lists what the call did, in order
SolverFactoryGetSolver(prov, toks, opts) ==
    IF ~prov.is_type
    THEN [raised |-> TRUE, type |-> "ValueError",
          message |-> <<"Unknown provider:", prov.value>>, steps |-> <<>>]
    ELSE
      LET token_key == TokenMap(prov.value)
          token == IF token_key # None THEN DictGet(toks, token_key)
                   ELSE None
          steps == IF token_key # None THEN <<"tokens.get">> ELSE <<>>
      IN IF token_key # None /\ token = None
         THEN [raised |-> TRUE, type |-> "RuntimeError",
               message |-> <<"Missing credentials for", prov.value>>,
               steps |-> steps]
         ELSE BuildSolver(prov.value, token, opts, steps)

\* the number of "tokens.get" steps of a call
TokenGets(steps) == Len(SelectSeq(steps, LAMBDA st : st = "tokens.get"))

FactoryInit ==
    /\ f_provider \in ProviderArgs
    /\ f_tokens \in TokenDicts
    /\ f_options \in ProviderOptions
    /\ f_result = None /\ fpc = "idle"
    /\ saved_accounts = {} /\ token_reads = 0
    /\ EnergyIdle /\ ParamsIdle /\ InspIdle /\ ComponentIdle
    /\ WfIdle /\ SessIdle /\ GGAEIdle /\ ExtractIdle /\ workflow = None

\* get_solver returns a solver; IBMQSolver.__init__ (ibmq_solver.py 55-57)
\* saves the account it is given
FactoryReturns ==
    /\ fpc = "idle"
    /\ LET r == SolverFactoryGetSolver(f_provider, f_tokens, f_options)
       IN /\ ~r.raised
          /\ f_result' = r
          /\ token_reads' = token_reads + TokenGets(r.steps)
          /\ saved_accounts' = (IF r.solver.class = "IBMQSolver"
                                THEN saved_accounts \cup {"ibmq_token"}
                                ELSE saved_accounts)
    /\ fpc' = "returned"
    /\ UNCHANGED <<wfVars, sessVars, ggaeVars, extractVars, solveVars,
                   energyVars, paramVars, inspVars, componentVars, f_provider, f_tokens,
                   f_options>>

\* get_solver raises
FactoryRaises ==
    /\ fpc = "idle"
    /\ LET r == SolverFactoryGetSolver(f_provider, f_tokens, f_options)
       IN /\ r.raised
          /\ f_result' = r
          /\ token_reads' = token_reads + TokenGets(r.steps)
    /\ fpc' = "raised"
    /\ UNCHANGED <<wfVars, sessVars, ggaeVars, extractVars, solveVars,
                   energyVars, paramVars, inspVars, componentVars, f_provider, f_tokens,
                   f_options,
                   saved_accounts>>

FactoryNext == FactoryReturns \/ FactoryRaises

SpecFactory == FactoryInit /\ [][FactoryNext]_vars

(***************************************************************************)
(* The constraint inspector (utils/model_utils.py), the mixer factory      *)
(* (algorithms/mixers/mixer_factory.py) and AlgorithmFactory.get_algorithm *)
(* (commons/algorithm_factory.py)                                          *)
(***************************************************************************)
\* largest right side of a constraint
MaxRhs == 2

\* The coefficient rows of a constraint over the n variables: all ones,
\* alternating 1 and -1, all twos, and the weights 1, 2, ..., n.
CoefficientRows(n) ==
    { [i \in 1..n |-> 1],
      [i \in 1..n |-> IF i % 2 = 1 THEN 1 ELSE 0 - 1],
      [i \in 1..n |-> 2],
      [i \in 1..n |-> i] }

\* What const.get_right_expr() returns: the constant expression docplex
\* builds for a numeric right side (the object whose `.constant` the D-Wave
\* code reads), or the bare number a constraint stub returns.
RightExprs(kind) == {[kind |-> kind, value |-> v] : v \in 0..MaxRhs}

ConstraintsOf(kind) ==
    [sense : {"EQ", "LE", "GE"}, coefs : CoefficientRows(NQubits),
     rhs : RightExprs(kind)]

\* The constraint lists inspected: none, one or two constraints, all of a
\* docplex model or all stubs.
InspectedModels ==
    UNION {{<<>>} \cup {<<c>> : c \in ConstraintsOf(kind)}
                  \cup {<<c, d>> : c, d \in ConstraintsOf(kind)} :
           kind \in {"ConstantExpr", "number"}}

\* all(coef == 1 for coef in get_coefficients(const).values())
AllUnit(const) == \A i \in DOMAIN const.coefs : const.coefs[i] = 1

\* get_unique_coefs(const)
UniqueCoefs(const) == {const.coefs[i] : i \in DOMAIN const.coefs}

\* isinstance(const.get_right_expr(), (int, float))
IsIntOrFloat(expr) == expr.kind = "number"

\* lines 46-54
IsCardinalityConstraint(const) ==
    /\ const.sense = "EQ"
    /\ AllUnit(const)
    /\ IsIntOrFloat(const.rhs)

\* lines 61-66; a constant expression compares equal to 0 when its
\* constant is 0
IsPartitionConstraint(const) ==
    /\ const.sense = "EQ"
    /\ const.rhs.value = 0
    /\ UniqueCoefs(const) = {1, 0 - 1}

\* lines 71-77
IsInequalityConstraint(const) ==
    /\ const.sense \in {"LE", "GE"}
    /\ ~AllUnit(const)

NoParameters == [is_none |-> TRUE, dict |-> <<>>]
NoAdditional == [is_none |-> TRUE, items |-> {}]

\* lines 34-102: get_model_constraint_info(model)
GetModelConstraintInfo(constraints) ==
    LET cardinality_constraints ==
            SelectSeq(constraints, IsCardinalityConstraint)
        partition_constraints ==
            SelectSeq(constraints, IsPartitionConstraint)
        inequality_constraints ==
            SelectSeq(constraints, IsInequalityConstraint)
        detected ==
            (IF cardinality_constraints # <<>> THEN {"cardinality"} ELSE {})
            \cup
            (IF partition_constraints # <<>> THEN {"partition"} ELSE {})
            \cup
            (IF inequality_constraints # <<>> THEN {"inequality"} ELSE {})
        keys ==
            (IF cardinality_constraints # <<>> THEN {"cardinality_k"}
             ELSE {})
            \cup
            (IF inequality_constraints # <<>> THEN {"inequality_bounds"}
             ELSE {})
        dict ==
            [k \in keys |->
                IF k = "cardinality_k" THEN cardinality_constraints[1].rhs
                ELSE [i \in 1..Len(inequality_constraints) |->
                        <<inequality_constraints[i].sense,
                          inequality_constraints[i].rhs>>]]
    IN IF Cardinality(detected) > 1
       THEN [type |-> "multiple",
             parameters |-> [is_none |-> FALSE, dict |-> dict],
             additional_constraints |->
                 [is_none |-> FALSE, items |-> detected]]
       ELSE IF Cardinality(detected) = 1
       THEN [type |-> CHOOSE t \in detected : TRUE,
             parameters |-> [is_none |-> FALSE, dict |-> dict],
             additional_constraints |-> NoAdditional]
       ELSE [type |-> "unconstrained", parameters |-> NoParameters,
             additional_constraints |-> NoAdditional]

\* lines 28-38: MixerFactory._get_mixer_for_type, instantiated
GetMixerForType(constraint_type) ==
    CASE constraint_type = "cardinality" -> [class |-> "CardinalityMixer"]
      [] constraint_type = "partition" -> [class |-> "PartitionMixer"]
      [] constraint_type = "inequality" -> [class |-> "InequalityMixer"]
      [] OTHER -> [class |-> "StandardMixer"]

\* lines 79-86: MixerFactory._get_all_constraints, as the set behind
\* list(set(constraints)); 'additional_constraints' is looked up among the
\* keys of constraint_info.parameters
GetAllConstraints(info) ==
    (IF info.type # "unconstrained" THEN {info.type} ELSE {})
    \cup
    (IF /\ ~info.parameters.is_none
        /\ "additional_constraints" \in DOMAIN info.parameters.dict
        THEN info.parameters.dict["additional_constraints"]
        ELSE {})

\* the orders in which list(set(...)) can enumerate a set
Orderings(S) ==
    {seq \in [1..Cardinality(S) -> S] :
        \A a, b \in 1..Cardinality(S) : seq[a] = seq[b] => a = b}

\* lines 54-62 and 102-109: the mixers MixerFactory.get_mixer can return
\* for a ConstraintInfo (the order of a composite's components is the
\* enumeration order of a set)
MixerFactoryGetMixer(info) ==
    LET constraints == GetAllConstraints(info)
    IN IF Cardinality(constraints) > 1
       THEN {[class |-> "CompositeMixer",
              mixers |-> [k \in 1..Len(order) |->
                             GetMixerForType(order[k])]] :
             order \in Orderings(constraints)}
       ELSE {GetMixerForType(info.type)}

\* ConstraintInfo objects built by hand, with the detected types listed
\* under the 'additional_constraints' key of `parameters`
HandMadeInfos ==
    {[type |-> "cardinality",
      parameters |-> [is_none |-> FALSE,
                      dict |-> [k \in {"additional_constraints"} |->
                                   {"partition"}]],
      additional_constraints |-> NoAdditional],
     [type |-> "multiple",
      parameters |-> [is_none |-> FALSE,
                      dict |-> [k \in {"additional_constraints"} |->
                                   {"cardinality", "inequality"}]],
      additional_constraints |-> NoAdditional]}

\* the mixers a caller can pass as AlgorithmConfig.mixer
MixerOverrides == {[class |-> "PartitionMixer"]}

NoMixer == [class |-> None]

\* the AlgorithmConfig objects given to get_algorithm
AlgorithmConfigs ==
    [algorithm : {"qaoa", "qao-ansatz"}, mixer : MixerOverrides \cup {NoMixer}]

\* algorithm_factory.py lines 88-99: the mixers get_algorithm can give the
\* QAOA object
AlgorithmMixers(config, info) ==
    IF config.algorithm = "qaoa" THEN {StandardMixer}
    ELSE IF config.mixer # NoMixer THEN {config.mixer}
    ELSE MixerFactoryGetMixer(info)

InspInit ==
    /\ i_model \in InspectedModels
    /\ i_info = None /\ i_config = None /\ i_mixer = None
    /\ i_circuit = None /\ ipc = "idle"
    /\ i_result = [raised |-> FALSE]
    /\ EnergyIdle /\ ParamsIdle /\ FactoryIdle /\ ComponentIdle
    /\ WfIdle /\ SessIdle /\ GGAEIdle /\ ExtractIdle /\ workflow = None

\* get_model_constraint_info(model), called on its own
InspGetModelConstraintInfo ==
    /\ ipc = "idle"
    /\ i_info' = GetModelConstraintInfo(i_model)
    /\ ipc' = "info"
    /\ UNCHANGED <<wfVars, sessVars, ggaeVars, extractVars, solveVars,
                   energyVars, paramVars, factoryVars, credVars, componentVars, i_model,
                   i_result,
                   i_config, i_mixer, i_circuit>>

\* MixerFactory.get_mixer on the inspector's ConstraintInfo
InspGetMixer ==
    /\ ipc = "info"
    /\ i_mixer' \in MixerFactoryGetMixer(i_info)
    /\ ipc' = "mixer"
    /\ UNCHANGED <<wfVars, sessVars, ggaeVars, extractVars, solveVars,
                   energyVars, paramVars, factoryVars, credVars, componentVars, i_model,
                   i_result,
                   i_info, i_config, i_circuit>>

\* MixerFactory.get_mixer on a ConstraintInfo built by hand
InspGetMixerHandMade ==
    /\ ipc = "idle"
    /\ i_model = <<>>
    /\ \E info \in HandMadeInfos :
          /\ i_info' = info
          /\ i_mixer' \in MixerFactoryGetMixer(info)
    /\ ipc' = "mixer"
    /\ UNCHANGED <<wfVars, sessVars, ggaeVars, extractVars, solveVars,
                   energyVars, paramVars, factoryVars, credVars, componentVars, i_model,
                   i_result,
                   i_config, i_circuit>>

\* AlgorithmFactory.get_algorithm(model, config) for the QAOA algorithms
InspGetAlgorithm ==
    /\ ipc = "idle"
    /\ \E config \in AlgorithmConfigs :
          /\ i_config' = config
          /\ i_info' = GetModelConstraintInfo(i_model)
          /\ i_mixer' \in AlgorithmMixers(config, i_info')
    /\ ipc' = "algorithm"
    /\ UNCHANGED <<wfVars, sessVars, ggaeVars, extractVars, solveVars,
                   energyVars, paramVars, factoryVars, credVars, componentVars, i_model,
                   i_result,
                   i_circuit>>

\* create_circuit of the QAOA object get_algorithm returned
InspCreateCircuit ==
    /\ ipc = "algorithm"
    /\ i_circuit' = QaoaCircuit(WorkflowQubo, NQubits, MaxP, i_mixer)
    /\ ipc' = "circuit"
    /\ UNCHANGED <<wfVars, sessVars, ggaeVars, extractVars, solveVars,
                   energyVars, paramVars, factoryVars, credVars, componentVars, i_model,
                   i_result,
                   i_info, i_config, i_mixer>>

\* the parameters of VQE.__init__ after `model` (vqe.py lines 25-27), none
\* with a default
VqeInitParameters ==
    {"solver", "verbose", "shots", "layers", "seed", "penalty", "ansatz"}

\* the keyword arguments get_algorithm passes to VQE
\* (algorithm_factory.py lines 103-106)
VqeFactoryArguments == {"layers", "penalty", "seed", "ansatz"}

\* VQE(model, **given): Python binds the arguments, then line 48 calls
\* super().__init__(model, solver, verbose, shots) on
\* Algorithm.__init__(self, model)
VqeNew(given) ==
    IF VqeInitParameters \ given # {}
    THEN [raised |-> TRUE, type |-> "TypeError",
          message |-> <<"__init__() missing required positional arguments",
                        VqeInitParameters \ given>>]
    ELSE [raised |-> TRUE, type |-> "TypeError",
          message |-> <<"__init__() takes 2 positional arguments but 5 "
                        \o "were given">>]

\* AlgorithmFactory.get_algorithm(model, config) with algorithm 'vqe'
InspGetAlgorithmVqe ==
    /\ ipc = "idle"
    /\ \E layers \in 1..MaxLayers :
          i_config' = [algorithm |-> "vqe", mixer |-> NoMixer,
                       layers |-> layers]
    /\ i_info' = GetModelConstraintInfo(i_model)
    /\ i_result' = VqeNew(VqeFactoryArguments)
    /\ ipc' = "vqe"
    /\ UNCHANGED <<wfVars, sessVars, ggaeVars, extractVars, solveVars,
                   energyVars, paramVars, factoryVars, credVars,
                   componentVars, i_model, i_mixer, i_circuit>>

InspNext ==
    \/ InspGetAlgorithmVqe
    \/ InspGetModelConstraintInfo
    \/ InspGetMixer
    \/ InspGetMixerHandMade
    \/ InspGetAlgorithm
    \/ InspCreateCircuit

SpecInspector == InspInit /\ [][InspNext]_vars

\* C17: get_solver raises the unknown-provider ValueError for a provider
\* that is not a ProviderType member and the missing-credentials
\* RuntimeError for d-wave or ibmq without a token, in both cases before any
\* provider option is read or a solver is constructed; braket never needs a
\* token.
C17_FactoryErrorsBeforeOptions ==
    fpc # "idle" =>
      /\ ~f_provider.is_type =>
            /\ fpc = "raised"
            /\ f_result.type = "ValueError"
            /\ f_result.message = <<"Unknown provider:", f_provider.value>>
            /\ f_result.steps = <<>>
            /\ saved_accounts = {}
      /\ \A v \in {"d-wave", "ibmq"} :
            (/\ f_provider = [is_type |-> TRUE, value |-> v]
             /\ f_tokens[v \o "_token"] # "token") =>
               /\ fpc = "raised"
               /\ f_result.type = "RuntimeError"
               /\ f_result.message = <<"Missing credentials for", v>>
               /\ f_result.steps = <<"tokens.get">>
               /\ saved_accounts = {}
      /\ f_provider = [is_type |-> TRUE, value |-> "braket"] =>
            /\ token_reads = 0
            /\ ~(f_result.raised /\ f_result.type = "RuntimeError")
            /\ (f_options.present
                /\ f_options.keys \subseteq {"device_parameters"}) =>
                  /\ fpc = "returned"
                  /\ f_result.solver.class = "BraketSolver"

\* get_solver was called for ibmq with a None token and with
\* provider_options left at None, and raised.
C17_Witness ==
    /\ fpc = "raised"
    /\ f_provider = [is_type |-> TRUE, value |-> "ibmq"]
    /\ f_tokens["ibmq_token"] = "None"
    /\ ~f_options.present

\* C18: during a solve the provider credentials are only read, at most once
\* per solve, and no step of solve or of solver construction writes or
\* persists a credential.
C18_CredentialsOnlyRead ==
    /\ token_reads <= 1
    /\ saved_accounts = {}

\* the lines of layer l (1..MaxP) of a QAOA text that follow the layer's
\* cost part
MixerPart(text, l) ==
    LET header == 2 * MaxP + 2 + NQubits
        cost_len == Len(CostLayer(WorkflowQubo, NQubits, 0))
        layer_len == (Len(text) - header - NQubits) \div MaxP
    IN SubSeq(text, header + (l - 1) * layer_len + cost_len + 1,
              header + l * layer_len)

\* the XY block on the qubits i < j with the angle theta<k>
XYBlock(i, j, k) ==
    << Line("h", <<i>>, NoAngle), Line("h", <<j>>, NoAngle),
       Line("cx", <<i, j>>, NoAngle),
       Line("rz", <<j>>, Placeholder("theta", k, Factor(1, 1))),
       Line("cx", <<i, j>>, NoAngle),
       Line("h", <<i>>, NoAngle), Line("h", <<j>>, NoAngle) >>

\* C19: for a model whose only constraint is an equality with unit
\* coefficients and right side k the inspector returns Cardinality with
\* cardinality_k = k, and with 'qao-ansatz' and no mixer override the mixer
\* part of every layer is one XY block for every qubit pair i < j and holds
\* no rx gate.
C19_CardinalityGetsXYMixer ==
    (/\ ipc \in {"info", "mixer", "algorithm", "circuit"}
     /\ Len(i_model) = 1
     /\ i_model[1].sense = "EQ"
     /\ \A i \in 1..NQubits : i_model[1].coefs[i] = 1) =>
        /\ i_info.type = "cardinality"
        /\ ~i_info.parameters.is_none
        /\ "cardinality_k" \in DOMAIN i_info.parameters.dict
        /\ i_info.parameters.dict["cardinality_k"].value =
              i_model[1].rhs.value
        /\ (/\ ipc = "circuit"
            /\ i_config = [algorithm |-> "qao-ansatz", mixer |-> NoMixer]) =>
              \A l \in 1..MaxP :
                 LET part == MixerPart(i_circuit, l)
                     pairs == {<<i, j>> \in (0..(NQubits - 1))
                                             \X (0..(NQubits - 1)) : i < j}
                 IN /\ \A k \in 1..Len(part) : part[k].op # "rx"
                    /\ Len(part) = 7 * Cardinality(pairs)
                    /\ \A pr \in pairs :
                          \E k \in 1..(Len(part) - 6) :
                             SubSeq(part, k, k + 6) =
                                XYBlock(pr[1], pr[2], 2 * (l - 1) + 1)

\* C20: when the inspector detects more than one constraint type, the mixer
\* the factory selects from its ConstraintInfo is a Composite mixer of the
\* mixers of the detected types, and the mixer part of the circuit is the
\* concatenation of the components' circuits.
C20_MultipleGetsComposite ==
    (/\ ipc \in {"mixer", "algorithm", "circuit"}
     /\ i_model # <<>>
     /\ i_info.type = "multiple"
     /\ (ipc = "mixer"
         \/ i_config = [algorithm |-> "qao-ansatz", mixer |-> NoMixer])) =>
        /\ i_mixer.class = "CompositeMixer"
        /\ Len(i_mixer.mixers) =
              Cardinality(i_info.additional_constraints.items)
        /\ {i_mixer.mixers[k].class : k \in 1..Len(i_mixer.mixers)} =
              {(CASE t = "cardinality" -> "CardinalityMixer"
                  [] t = "partition" -> "PartitionMixer"
                  [] t = "inequality" -> "InequalityMixer") :
               t \in i_info.additional_constraints.items}
        /\ ipc = "circuit" =>
              \A l \in 1..MaxP :
                 MixerPart(i_circuit, l) =
                    Flatten([k \in 1..Len(i_mixer.mixers) |->
                        SimpleMixerCircuit(i_mixer.mixers[k].class, NQubits,
                                           2 * (l - 1) + 1)])

\* C21: for a model with exactly one constraint sum of w_i * x_i <= C, for
\* every choice of positive integer weights, the inspector returns type
\* Inequality and records the constraint's (sense, right side) in
\* inequality_bounds.
C21_WeightedSumIsInequality ==
    (/\ ipc \in {"info", "mixer", "algorithm", "circuit"}
     /\ Len(i_model) = 1
     /\ i_model[1].sense = "LE"
     /\ \A i \in 1..NQubits : i_model[1].coefs[i] > 0) =>
        /\ i_info.type = "inequality"
        /\ ~i_info.parameters.is_none
        /\ "inequality_bounds" \in DOMAIN i_info.parameters.dict
        /\ i_info.parameters.dict["inequality_bounds"] =
              << <<"LE", i_model[1].rhs>> >>

\* C22: the inspector returns type Unconstrained if and only if the model
\* has no constraint.
C22_UnconstrainedIffEmpty ==
    (\/ ipc \in {"info", "algorithm", "circuit"}
     \/ ipc = "mixer" /\ i_model # <<>>) =>
        (i_info.type = "unconstrained" <=> i_model = <<>>)

(***************************************************************************)
(* QAOA.create_circuit called on its own (algorithms/qaoa.py)              *)
(***************************************************************************)
\* largest depth p of the QAOA objects whose circuit is created
MaxDepth == 2

\* the linear arrays explored
LinearArrays == [1..NQubits -> {0 - 1, 2}]

\* the quadratic arrays explored, every entry 0 or 3
QuadraticArrays == [0..(NQubits - 1) -> [0..(NQubits - 1) -> {0, 3}]]

\* the mixers of the QAOA objects explored
CircuitMixers ==
    {StandardMixer, [class |-> "CardinalityMixer"], [class |-> "XYMixer"],
     [class |-> "CompositeMixer",
      mixers |-> <<[class |-> "InequalityMixer"],
                   [class |-> "PartitionMixer"]>>]}

CircInit ==
    /\ c_linear \in LinearArrays
    /\ c_quadratic \in QuadraticArrays
    /\ c_p \in 1..MaxDepth
    /\ c_mixer \in CircuitMixers
    /\ c_text = None /\ cpc = "idle"
    /\ EnergyIdle /\ ParamsIdle /\ FactoryIdle /\ InspIdle
    /\ AfterCircIdle
    /\ WfIdle /\ SessIdle /\ GGAEIdle /\ ExtractIdle /\ workflow = None

\* qaoa.create_circuit(penalty=...)
CircCreateCircuit ==
    /\ cpc = "idle"
    /\ c_text' = QaoaCircuitOf(c_linear, c_quadratic, NQubits, c_p, c_mixer)
    /\ cpc' = "created"
    /\ UNCHANGED <<wfVars, sessVars, ggaeVars, extractVars, solveVars,
                   energyVars, paramVars, factoryVars, credVars, inspVars,
                   afterCirc, c_linear, c_quadratic, c_p, c_mixer>>

CircNext == CircCreateCircuit

SpecCircuit == CircInit /\ [][CircNext]_vars

RECURSIVE SumOfRow(_, _)
\* the sum of the entries of a row over the columns S
SumOfRow(row, S) ==
    IF S = {} THEN 0
    ELSE LET j == CHOOSE x \in S : TRUE
         IN row[j] + SumOfRow(row, S \ {j})

\* the pairs i < j with a non-zero quadratic entry
CoupledPairs(quadratic) ==
    {pr \in (0..(NQubits - 1)) \X (0..(NQubits - 1)) :
        pr[1] < pr[2] /\ quadratic[pr[1]][pr[2]] # 0}

\* the number of coupled pairs that the nested loops visit before pr
CoupledBefore(quadratic, pr) ==
    Cardinality({o \in CoupledPairs(quadratic) :
                    \/ o[1] < pr[1]
                    \/ o[1] = pr[1] /\ o[2] < pr[2]})

\* C23: create_circuit emits, in order, the 2p declarations theta0.., the
\* registers q[n] and c[n], one Hadamard per qubit, then for each layer one
\* rz per qubit with angle theta(2l) * (h_i + sum_j J_ij), a cx / rz / cx
\* triple with theta(2l) * J_ij / 2 for each pair i < j with J_ij # 0 and
\* the mixer block for (n, theta(2l+1)), and finally exactly n
\* measurements.
C23_CircuitLayout ==
    cpc = "created" =>
      LET n == NQubits
          head == 2 * c_p + 2 + n
          coupled == CoupledPairs(c_quadratic)
          cost_len == n + 3 * Cardinality(coupled)
          mixer_len == Len(GenerateCircuit(c_mixer, n, 1))
          layer_len == cost_len + mixer_len
      IN /\ Len(c_text) = head + c_p * layer_len + n
         /\ \A k \in 1..(2 * c_p) :
               c_text[k] = [op |-> "input", qubits |-> <<>>,
                            angle |-> [kind |-> "theta", index |-> k - 1,
                                       factor |-> [num |-> 1, den |-> 1]]]
         /\ c_text[2 * c_p + 1] =
               [op |-> "qreg", qubits |-> <<n>>, angle |-> NoAngle]
         /\ c_text[2 * c_p + 2] =
               [op |-> "creg", qubits |-> <<n>>, angle |-> NoAngle]
         /\ \A i \in 1..n :
               c_text[2 * c_p + 2 + i] =
                  [op |-> "h", qubits |-> <<i - 1>>, angle |-> NoAngle]
         /\ \A l \in 0..(c_p - 1) :
               LET at == head + l * layer_len
               IN /\ \A i \in 1..n :
                        c_text[at + i] =
                           [op |-> "rz", qubits |-> <<i - 1>>,
                            angle |->
                               [kind |-> "theta", index |-> 2 * l,
                                factor |->
                                   [num |-> c_linear[i] +
                                        SumOfRow(c_quadratic[i - 1],
                                                 0..(n - 1)),
                                    den |-> 1]]]
                  /\ \A pr \in coupled :
                        LET k == at + n + 3 * CoupledBefore(c_quadratic, pr)
                            cx == [op |-> "cx", qubits |-> <<pr[1], pr[2]>>,
                                   angle |-> NoAngle]
                        IN /\ c_text[k + 1] = cx
                           /\ c_text[k + 2] =
                                 [op |-> "rz", qubits |-> <<pr[2]>>,
                                  angle |->
                                     [kind |-> "theta", index |-> 2 * l,
                                      factor |->
                                         [num |-> c_quadratic[pr[1]][pr[2]],
                                          den |-> 2]]]
                           /\ c_text[k + 3] = cx
                  /\ SubSeq(c_text, at + cost_len + 1, at + layer_len) =
                        GenerateCircuit(c_mixer, n, 2 * l + 1)
         /\ \A i \in 1..n :
               c_text[Len(c_text) - n + i] =
                  [op |-> "measure", qubits |-> <<i - 1>>, angle |-> NoAngle]
         /\ Cardinality({k \in 1..Len(c_text) : c_text[k].op = "measure"})
               = n

\* create_circuit ran with depth 2 and an XY mixer for a QUBO with a
\* coupled pair and with quadratic entries that only count in the row
\* sums; the second layer's cost part names theta2 and its mixer theta3
C23_Witness ==
    /\ cpc = "created"
    /\ c_p = 2
    /\ CoupledPairs(c_quadratic) # {}
    /\ c_quadratic[0][0] # 0
    /\ c_quadratic[NQubits - 1][0] # 0
    /\ c_mixer.class = "XYMixer"
    /\ \E k \in 1..Len(c_text) :
          /\ c_text[k].op = "cx"
          /\ c_text[k + 1].op = "rz"
          /\ c_text[k + 1].angle.index = 2
          /\ c_text[k + 1].angle.factor.den = 2
    /\ \E k \in 1..Len(c_text) :
          /\ c_text[k].op = "h; h"
          /\ c_text[k + 2].op = "rz"
          /\ c_text[k + 2].angle.index = 3

\* C24: selecting 'vqe' through AlgorithmFactory yields a VQE instance whose
\* parameter count and starting-point length are n + 4 * (n - 1) * layers
\* and whose circuit holds one placeholder per parameter index, each of
\* which update_params replaces by its value.
C24_VqeThroughFactory ==
    ipc = "vqe" =>
        /\ ~i_result.raised
        /\ i_result.class = "VQE"
        /\ i_result.num_params =
              NQubits + 4 * (NQubits - 1) * i_config.layers

(***************************************************************************)
(* parse_response of the gate-based adapters (solvers/ibmq_solver.py,      *)
(* solvers/braket_solver.py)                                               *)
(***************************************************************************)
\* BraketSolver.parse_response: response.measurement_counts as it is
BraketParseResponse(response) == response.measurement_counts

\* parse_response of an adapter
AdapterParseResponse(adapter, response) ==
    IF adapter = "ibmq" THEN ParseResponse(response)
    ELSE BraketParseResponse(response)

\* The response of the backend: for IBMQ the dictionary of counts, for
\* Braket the task result object, the counts in its measurement_counts.
AdapterInit ==
    /\ a_adapter \in {"ibmq", "braket"}
    /\ \E h \in HistogramsOf(NQubits) :
           a_response = IF a_adapter = "braket"
                        THEN [measurement_counts |-> h] ELSE h
    /\ a_counts = None /\ apc = "idle"
    /\ EnergyIdle /\ ParamsIdle /\ FactoryIdle /\ InspIdle /\ CircIdle
    /\ AfterAdapterIdle
    /\ WfIdle /\ SessIdle /\ GGAEIdle /\ ExtractIdle /\ workflow = None

\* solver.parse_response(response) on the backend's histogram
AdapterParse ==
    /\ apc = "idle"
    /\ a_counts' = AdapterParseResponse(a_adapter, a_response)
    /\ apc' = "parsed"
    /\ UNCHANGED <<wfVars, sessVars, ggaeVars, extractVars, solveVars,
                   energyVars, paramVars, factoryVars, credVars, inspVars,
                   circVars, a_adapter, a_response, afterAdapter>>

\* IBMQSolver.parse_response applied to its own result, a dictionary
AdapterParseAgain ==
    /\ apc = "parsed"
    /\ a_adapter = "ibmq"
    /\ a_counts' = AdapterParseResponse(a_adapter, a_counts)
    /\ apc' = "parsed twice"
    /\ UNCHANGED <<wfVars, sessVars, ggaeVars, extractVars, solveVars,
                   energyVars, paramVars, factoryVars, credVars, inspVars,
                   circVars, a_adapter, a_response, afterAdapter>>

\* BraketSolver.parse_response applied to its own result: the dictionary
\* has no attribute measurement_counts, line 99 raises AttributeError.
AdapterParseAgainRaises ==
    /\ apc = "parsed"
    /\ a_adapter = "braket"
    /\ apc' = "raised AttributeError"
    /\ UNCHANGED <<wfVars, sessVars, ggaeVars, extractVars, solveVars,
                   energyVars, paramVars, factoryVars, credVars, inspVars,
                   circVars, a_adapter, a_response, a_counts, afterAdapter>>

AdapterNext ==
    \/ AdapterParse
    \/ AdapterParseAgain
    \/ AdapterParseAgainRaises

SpecAdapter == AdapterInit /\ [][AdapterNext]_vars

\* C25: parse_response of the IBMQ adapter and of the Braket adapter both
\* map each backend key to its reversal and keep its count, so the total
\* count is preserved and reversing twice gives back the backend histogram.
C25_AdaptersReverseKeys ==
    LET backend == IF a_adapter = "braket"
                   THEN a_response.measurement_counts ELSE a_response
    IN /\ apc = "parsed" =>
             /\ Len(a_counts) = Len(backend)
             /\ \A k \in 1..Len(backend) :
                   /\ a_counts[k][2] = backend[k][2]
                   /\ \A b \in 1..NQubits :
                         a_counts[k][1][b] = backend[k][1][NQubits + 1 - b]
       /\ apc = "parsed twice" => a_counts = backend

\* C29: in run_ibm_session_workflow the session is opened only after the
\* circuit was transpiled, every sampler run (each cost evaluation and the
\* final submission) starts while the session is open, and the session is
\* closed once the workflow has returned or an exception has left it.
C29_SessionBracketsSamplerRuns ==
    [][/\ (session_open' /\ ~session_open) =>
             (transpile_calls = 1 /\ pc = "open_session")
       /\ compute_counts_calls' # compute_counts_calls => session_open
       /\ pc' \in {"done", "raised"} => ~session_open']_vars

\* a sampler run raised after earlier runs, and the session is closed
C29_Witness ==
    /\ workflow = "ibm_session" /\ pc = "raised"
    /\ compute_counts_calls >= 2 /\ transpile_calls = 1
    /\ raised = ProviderError /\ ~session_open

(***************************************************************************)
(* DWaveSolver (solvers/dwave_solver.py)                                   *)
(***************************************************************************)
\* model/constants.py: VAR_TYPE
VAR_TYPE(code) ==
    CASE code = "B" -> "BINARY"
      [] code = "I" -> "INTEGER"
      [] code = "C" -> "REAL"

\* The linear constraints of the models handed to the adapter: none, or one
\* constraint over all the variables with a constant right side.
ConstraintLists ==
    {<<>>} \cup
    {<<[coefs |-> row, sense |-> sn, rhs |-> 1]>> :
        row \in {[i \in 1..NVars |-> 1], [i \in 1..NVars |-> i + 1]},
        sn \in {"<=", ">=", "=="}}

DWaveModels ==
    {[vartypes |-> m.vartypes, linear |-> m.linear, quad |-> m.quad,
      sense |-> m.sense, constraints |-> cs] :
        m \in Models, cs \in ConstraintLists}

\* The backend argument of the constructor; "simulator" stands for any
\* name other than the two the adapter knows.
DWaveBackendArgs == {None, "hybrid_solver", "d-wave_sampler", "simulator"}

\* qpu.solver.name: the name of the QPU the D-Wave client selected
QpuSolverName == "Advantage_system"

\* The class bound to DiscreteQuadraticModel: dimod's, whose add_variable
\* takes (num_cases, label), or a stand-in that accepts any call, as the
\* test suite patches in.
DqmClasses == {"dimod", "stand-in"}

\* upper bound of a variable (integer variables range over 0..2^IntBits-1)
UpperBound(kind) == IF kind = "I" THEN Pow2(IntBits) - 1 ELSE 1

\* lines 194-197 and 227-230: add_variable(VAR_TYPE[...], name, lb, ub)
TypedVariables(m) ==
    [i \in 1..NVars |->
        [label |-> i, vartype |-> VAR_TYPE(m.vartypes[i]),
         lower_bound |-> 0, upper_bound |-> UpperBound(m.vartypes[i])]]

\* lines 200-201
SenseMultiplier(m) == IF m.sense = "min" THEN 1 ELSE 0 - 1

\* parse_objective, lines 174-210, on a freshly built dimod model of the
\* given class
DWaveParseObjective(m, class) ==
    [class |-> class,
     variables |->
        IF class = "BinaryQuadraticModel"
        THEN [i \in 1..NVars |-> [label |-> i, vartype |-> "BINARY"]]
        ELSE TypedVariables(m),
     linear |-> [i \in 1..Len(m.linear) |->
                    <<m.linear[i][1], m.linear[i][2] * SenseMultiplier(m)>>],
     quadratic |-> [k \in 1..Len(m.quad) |->
                    <<m.quad[k][1], m.quad[k][2],
                      m.quad[k][3] * SenseMultiplier(m)>>]]

\* parse_constraint, lines 212-240
DWaveParseConstraint(m, c) ==
    [class |-> "QuadraticModel",
     variables |-> TypedVariables(m),
     linear |-> [i \in 1..NVars |-> <<i, c.coefs[i]>>],
     quadratic |-> <<>>]

\* parse_input, lines 136-172.  DiscreteQuadraticModel.add_variable of
\* dimod has no lower_bound / upper_bound keywords: the call of lines
\* 195-197 raises TypeError.
DWaveParseInput(m, dqm) ==
    IF Len(m.constraints) > 0
    THEN [raised |-> FALSE, model_type |-> VAR_TYPE("C"),
          parsed_model |->
             [class |-> "ConstrainedQuadraticModel",
              objective |-> DWaveParseObjective(m, "QuadraticModel"),
              constraints |->
                 [k \in 1..Len(m.constraints) |->
                     [qm |-> DWaveParseConstraint(m, m.constraints[k]),
                      sense |-> m.constraints[k].sense,
                      rhs |-> m.constraints[k].rhs,
                      label |-> k]]]]
    ELSE IF \E i \in 1..NVars : VAR_TYPE(m.vartypes[i]) = VAR_TYPE("I")
    THEN IF dqm = "dimod"
         THEN [raised |-> TRUE,
               type |-> <<"TypeError", "add_variable", "lower_bound">>]
         ELSE [raised |-> FALSE, model_type |-> VAR_TYPE("I"),
               parsed_model |->
                  DWaveParseObjective(m, "DiscreteQuadraticModel")]
    ELSE [raised |-> FALSE, model_type |-> VAR_TYPE("B"),
          parsed_model |-> DWaveParseObjective(m, "BinaryQuadraticModel")]

\* lines 274-278
HybridSampler(model_type) ==
    CASE model_type = VAR_TYPE("C") -> "LeapHybridCQMSampler"
      [] model_type = VAR_TYPE("I") -> "LeapHybridDQMSampler"
      [] model_type = VAR_TYPE("B") -> "LeapHybridBQMSampler"

UnsupportedBackend(backend) == <<"ValueError", "Unsupported backend", backend>>

\* A plausible bug: no fallback for the models the QPU cannot take.
DWaveSelectBackend_NoFallback(backend, embedding, model_type) ==
    IF backend = "hybrid_solver"
    THEN [raised |-> FALSE, backend |-> backend, warned |-> FALSE,
          sampler |-> [class |-> HybridSampler(model_type)]]
    ELSE IF backend = "d-wave_sampler"
    THEN [raised |-> FALSE, backend |-> QpuSolverName, warned |-> FALSE,
          sampler |->
             IF embedding = None
             THEN [class |-> "AutoEmbeddingComposite",
                   child |-> "DWaveSampler"]
             ELSE [class |-> "FixedEmbeddingComposite",
                   child |-> "DWaveSampler", embedding |-> embedding]]
    ELSE [raised |-> TRUE, backend |-> backend, warned |-> FALSE,
          type |-> UnsupportedBackend(backend)]

\* select_backend, lines 242-306: the sampler returned, the value of
\* self._backend afterwards, and whether the warning was printed.
DWaveSelectBackend(backend, embedding, model_type) ==
    IF backend = "hybrid_solver"
    THEN [raised |-> FALSE, backend |-> backend, warned |-> FALSE,
          sampler |-> [class |-> HybridSampler(model_type)]]
    ELSE IF backend = "d-wave_sampler"
    THEN IF model_type \in {VAR_TYPE("C"), VAR_TYPE("I")}
         THEN [raised |-> FALSE, backend |-> backend, warned |-> TRUE,
               sampler |-> [class |-> HybridSampler(model_type)]]
         ELSE [raised |-> FALSE, backend |-> QpuSolverName,
               warned |-> FALSE,
               sampler |->
                  IF embedding = None
                  THEN [class |-> "AutoEmbeddingComposite",
                        child |-> "DWaveSampler"]
                  ELSE [class |-> "FixedEmbeddingComposite",
                        child |-> "DWaveSampler",
                        embedding |-> embedding]]
    ELSE [raised |-> TRUE, backend |-> backend, warned |-> FALSE,
          type |-> UnsupportedBackend(backend)]

\* solve, lines 83-110: the method called on the sampler, its keyword and
\* whether the infeasible rows are filtered out
DWaveSamplingCall(backend, model_type) ==
    IF /\ backend # "hybrid_solver"
       /\ model_type \notin {VAR_TYPE("C"), VAR_TYPE("I")}
    THEN [method |-> "sample", keyword |-> "num_reads",
          feasible_only |-> FALSE]
    ELSE IF model_type = VAR_TYPE("C")
    THEN [method |-> "sample_cqm", keyword |-> "time_limit",
          feasible_only |-> TRUE]
    ELSE IF model_type = VAR_TYPE("I")
    THEN [method |-> "sample_dqm", keyword |-> "time_limit",
          feasible_only |-> FALSE]
    ELSE [method |-> "sample", keyword |-> "time_limit",
          feasible_only |-> FALSE]

\* __init__, lines 18-55, then the instance before its first solve
DwInit ==
    /\ dpc = "idle" /\ d_solves = 0
    /\ d_model \in DWaveModels
    /\ \E backend \in DWaveBackendArgs :
           d_backend = IF backend = None THEN "hybrid_solver" ELSE backend
    /\ d_embedding \in {None, "embedding"}
    /\ d_dqm \in DqmClasses
    /\ d_parsed = None /\ d_model_type = None /\ d_sampler = None
    /\ d_sampled = None /\ d_warned = FALSE /\ d_raised = None
    /\ CbIdle /\ AdapterIdle
    /\ EnergyIdle /\ ParamsIdle /\ FactoryIdle /\ InspIdle /\ CircIdle
    /\ WfIdle /\ SessIdle /\ GGAEIdle /\ ExtractIdle /\ workflow = None

\* line 77 of a solve call on the instance: parse_input(model)
DwParseInput ==
    /\ dpc \in {"idle", "returned", "raised"}
    /\ d_solves < MaxSolves
    /\ ~DWaveParseInput(d_model, d_dqm).raised
    /\ d_solves' = d_solves + 1
    /\ d_parsed' = DWaveParseInput(d_model, d_dqm)
    /\ d_model_type' = DWaveParseInput(d_model, d_dqm).model_type
    /\ d_sampler' = None /\ d_sampled' = None /\ d_warned' = FALSE
    /\ d_raised' = None
    /\ dpc' = "select_backend"
    /\ UNCHANGED <<wfVars, sessVars, ggaeVars, extractVars, solveVars,
                   energyVars, paramVars, factoryVars, credVars, inspVars,
                   circVars, adapterVars, cbVars, d_model, d_backend,
                   d_embedding, d_dqm>>

\* line 77 when parse_input raises: the exception leaves solve
DwParseInputRaises ==
    /\ dpc \in {"idle", "returned", "raised"}
    /\ d_solves < MaxSolves
    /\ DWaveParseInput(d_model, d_dqm).raised
    /\ d_solves' = d_solves + 1
    /\ d_parsed' = DWaveParseInput(d_model, d_dqm)
    /\ d_model_type' = None
    /\ d_sampler' = None /\ d_sampled' = None /\ d_warned' = FALSE
    /\ d_raised' = DWaveParseInput(d_model, d_dqm).type
    /\ dpc' = "raised"
    /\ UNCHANGED <<wfVars, sessVars, ggaeVars, extractVars, solveVars,
                   energyVars, paramVars, factoryVars, credVars, inspVars,
                   circVars, adapterVars, cbVars, d_model, d_backend,
                   d_embedding, d_dqm>>

\* line 79: sampler = self.select_backend(parsed_model, model_type)
DwSelectBackend ==
    /\ dpc = "select_backend"
    /\ LET sel == DWaveSelectBackend(d_backend, d_embedding, d_model_type)
       IN /\ ~sel.raised
          /\ d_sampler' = sel.sampler
          /\ d_backend' = sel.backend
          /\ d_warned' = sel.warned
    /\ dpc' = "sample"
    /\ UNCHANGED <<wfVars, sessVars, ggaeVars, extractVars, solveVars,
                   energyVars, paramVars, factoryVars, credVars, inspVars,
                   circVars, adapterVars, cbVars, d_solves, d_model,
                   d_embedding, d_dqm, d_parsed, d_model_type, d_sampled,
                   d_raised>>

\* line 79 when select_backend raises (line 306)
DwSelectBackendRaises ==
    /\ dpc = "select_backend"
    /\ LET sel == DWaveSelectBackend(d_backend, d_embedding, d_model_type)
       IN /\ sel.raised
          /\ d_raised' = sel.type
          /\ d_backend' = sel.backend
          /\ d_warned' = sel.warned
    /\ dpc' = "raised"
    /\ UNCHANGED <<wfVars, sessVars, ggaeVars, extractVars, solveVars,
                   energyVars, paramVars, factoryVars, credVars, inspVars,
                   circVars, adapterVars, cbVars, d_solves, d_model,
                   d_embedding, d_dqm, d_parsed, d_model_type, d_sampler,
                   d_sampled>>

\* lines 83-114: the sampling call on the selected sampler, then
\* parse_response of the best row
DwSample ==
    /\ dpc = "sample"
    /\ d_sampled' = DWaveSamplingCall(d_backend, d_model_type)
    /\ dpc' = "returned"
    /\ UNCHANGED <<wfVars, sessVars, ggaeVars, extractVars, solveVars,
                   energyVars, paramVars, factoryVars, credVars, inspVars,
                   circVars, adapterVars, cbVars, d_solves, d_model,
                   d_backend, d_embedding, d_dqm, d_parsed, d_model_type,
                   d_sampler, d_warned, d_raised>>

DwNext ==
    \/ DwParseInput
    \/ DwParseInputRaises
    \/ DwSelectBackend
    \/ DwSelectBackendRaises
    \/ DwSample

SpecDWave == DwInit /\ [][DwNext]_vars

\* C26: parse_input produces a ConstrainedQuadraticModel if the model has
\* a constraint, otherwise a DiscreteQuadraticModel if a variable is
\* integer, otherwise a BinaryQuadraticModel; each linear and quadratic
\* objective coefficient is negated exactly when the sense is max, and the
\* constraint coefficients, senses and right sides are passed unchanged.
C26_ParseInputByModelClass ==
    d_solves > 0 =>
       /\ ~d_parsed.raised
       /\ LET parsed == d_parsed.parsed_model
              objective == IF Len(d_model.constraints) > 0
                           THEN parsed.objective ELSE parsed
              negated == d_model.sense = "max"
          IN /\ parsed.class =
                   IF Len(d_model.constraints) > 0
                   THEN "ConstrainedQuadraticModel"
                   ELSE IF \E i \in 1..NVars : d_model.vartypes[i] = "I"
                   THEN "DiscreteQuadraticModel"
                   ELSE "BinaryQuadraticModel"
             /\ Len(objective.linear) = Len(d_model.linear)
             /\ \A i \in 1..Len(d_model.linear) :
                   objective.linear[i][2] =
                      IF negated THEN 0 - d_model.linear[i][2]
                      ELSE d_model.linear[i][2]
             /\ Len(objective.quadratic) = Len(d_model.quad)
             /\ \A k \in 1..Len(d_model.quad) :
                   objective.quadratic[k][3] =
                      IF negated THEN 0 - d_model.quad[k][3]
                      ELSE d_model.quad[k][3]
             /\ Len(d_model.constraints) > 0 =>
                   /\ Len(parsed.constraints) = Len(d_model.constraints)
                   /\ \A k \in 1..Len(d_model.constraints) :
                         /\ parsed.constraints[k].sense =
                               d_model.constraints[k].sense
                         /\ parsed.constraints[k].rhs =
                               d_model.constraints[k].rhs
                         /\ \A i \in 1..NVars :
                               parsed.constraints[k].qm.linear[i][2] =
                                  d_model.constraints[k].coefs[i]

\* C27: select_backend returns the hybrid sampler of the model's class for
\* 'hybrid_solver'; for 'd-wave_sampler' and a binary unconstrained model
\* the QPU sampler in AutoEmbeddingComposite without an embedding and in
\* FixedEmbeddingComposite with the given one; for 'd-wave_sampler' and a
\* constrained or integer model the hybrid sampler of that class with a
\* warning, solve then calling sample_cqm (feasible rows only) or
\* sample_dqm; for any other name it raises ValueError and nothing is
\* sampled.
C27_BackendSelection ==
    [][/\ (dpc = "select_backend" /\ d_backend = "hybrid_solver") =>
             /\ dpc' = "sample"
             /\ d_sampler' = [class |-> HybridSampler(d_model_type)]
       /\ (/\ dpc = "select_backend" /\ d_backend = "d-wave_sampler"
           /\ d_model_type = "BINARY") =>
             /\ dpc' = "sample" /\ ~d_warned'
             /\ d_sampler' =
                   IF d_embedding = None
                   THEN [class |-> "AutoEmbeddingComposite",
                         child |-> "DWaveSampler"]
                   ELSE [class |-> "FixedEmbeddingComposite",
                         child |-> "DWaveSampler",
                         embedding |-> d_embedding]
       /\ (/\ dpc = "select_backend" /\ d_backend = "d-wave_sampler"
           /\ d_model_type \in {"REAL", "INTEGER"}) =>
             /\ dpc' = "sample" /\ d_warned'
             /\ d_sampler' = [class |-> HybridSampler(d_model_type)]
       /\ (dpc = "sample" /\ d_warned) =>
             /\ d_sampled'.method = IF d_model_type = "REAL"
                                    THEN "sample_cqm" ELSE "sample_dqm"
             /\ d_sampled'.feasible_only = (d_model_type = "REAL")
       /\ (/\ dpc = "select_backend"
           /\ d_backend \notin {"hybrid_solver", "d-wave_sampler"}) =>
             /\ dpc' = "raised"
             /\ d_raised'[1] = "ValueError"
             /\ d_sampled' = None]_vars

\* a fallback solve has sampled through the hybrid method
C27_Witness ==
    /\ dpc = "returned" /\ d_warned /\ d_backend = "d-wave_sampler"
    /\ d_model_type = "REAL"
    /\ d_sampler = [class |-> "LeapHybridCQMSampler"]
    /\ d_sampled.method = "sample_cqm" /\ d_sampled.feasible_only

\* C28: after any solve of a binary unconstrained model by a solver built
\* with 'd-wave_sampler' the backend setting is still one select_backend
\* accepts, and no later solve raises 'Unsupported backend' for it.
C28_BackendSettingSurvivesSolve ==
    /\ dpc = "returned" => d_backend \in {"hybrid_solver", "d-wave_sampler"}
    /\ ~(dpc = "raised" /\ d_raised = UnsupportedBackend(QpuSolverName))

(***************************************************************************)
(* OptimizationCallback (commons/optimization_callback.py) across solves   *)
(***************************************************************************)
\* largest number of optimizer callbacks in one solve
MaxCallbacks == 3

\* The ExecutionConfig objects: the default value of the config parameter
\* of QModel.solve, built once when the method is defined, and two configs
\* the caller built and passes to solve.
DefaultArgument == "QModel.solve default argument"
CallerConfigs == {"config 1", "config 2"}
ConfigObjects == {DefaultArgument} \cup CallerConfigs

\* the models solved
CallbackModels == {"model 1", "model 2"}

\* OptimizationCallback.__init__, lines 49-67, without a user callback
NewCallback == [iteration |-> 0, iterations |-> <<>>, logged |-> <<>>]

\* OptimizationCallback.__call__, lines 69-95, without a user callback and
\* with verbose = True: count, record, log.
CallbackCall(cb) ==
    [iteration |-> cb.iteration + 1,
     iterations |-> Append(cb.iterations, cb.iteration + 1),
     logged |-> Append(cb.logged, cb.iteration + 1)]

\* ExecutionConfig.__post_init__, lines 41-46: every config object gets an
\* OptimizationCallback of its own when it is built.
CbInit ==
    /\ kpc = "idle"
    /\ k_callbacks = [c \in ConfigObjects |-> NewCallback]
    /\ k_config = None /\ k_model = None /\ k_max_iter = 0
    /\ k_calls = 0 /\ k_start = 0 /\ k_solves = 0
    /\ DwIdle /\ AdapterIdle
    /\ EnergyIdle /\ ParamsIdle /\ FactoryIdle /\ InspIdle /\ CircIdle
    /\ WfIdle /\ SessIdle /\ GGAEIdle /\ ExtractIdle /\ workflow = None

\* model.solve('quantum', config) with a config of the caller: the
\* workflow reads options.callback (ggae_workflow.py line 35,
\* ibm_session_workflow.py line 37), the object as the earlier solves left
\* it, and hands it to scipy.optimize.minimize.
CbSolveEnter ==
    /\ kpc \in {"idle", "returned", "raised"}
    /\ k_solves < MaxSolves
    /\ \E c \in CallerConfigs, m \in CallbackModels, n \in 1..MaxCallbacks :
           /\ k_config' = c /\ k_model' = m /\ k_max_iter' = n
           /\ k_start' = k_callbacks[c].iteration
    /\ k_calls' = 0
    /\ k_solves' = k_solves + 1
    /\ kpc' = "minimize"
    /\ UNCHANGED <<wfVars, sessVars, ggaeVars, extractVars, solveVars,
                   energyVars, paramVars, factoryVars, credVars, inspVars,
                   circVars, adapterVars, dwVars, k_callbacks>>

\* model.solve('quantum') with the default argument: config.provider is
\* None and ProviderType(None) raises ValueError (qmodel.py line 110)
\* before any workflow runs.
CbSolveDefaultRaises ==
    /\ kpc \in {"idle", "returned", "raised"}
    /\ k_solves < MaxSolves
    /\ k_config' = DefaultArgument
    /\ k_model' \in CallbackModels
    /\ k_max_iter' = 0 /\ k_calls' = 0
    /\ k_start' = k_callbacks[DefaultArgument].iteration
    /\ k_solves' = k_solves + 1
    /\ kpc' = "raised"
    /\ UNCHANGED <<wfVars, sessVars, ggaeVars, extractVars, solveVars,
                   energyVars, paramVars, factoryVars, credVars, inspVars,
                   circVars, adapterVars, dwVars, k_callbacks>>

\* the optimizer calls callback(xk) after an iteration
CbCall ==
    /\ kpc = "minimize"
    /\ k_calls < k_max_iter
    /\ k_callbacks' = [k_callbacks EXCEPT ![k_config] = CallbackCall(@)]
    /\ k_calls' = k_calls + 1
    /\ UNCHANGED <<wfVars, sessVars, ggaeVars, extractVars, solveVars,
                   energyVars, paramVars, factoryVars, credVars, inspVars,
                   circVars, adapterVars, dwVars, kpc, k_config, k_model,
                   k_max_iter, k_start, k_solves>>

\* scipy.optimize.minimize returns and the solve ends
CbSolveReturns ==
    /\ kpc = "minimize"
    /\ kpc' = "returned"
    /\ UNCHANGED <<wfVars, sessVars, ggaeVars, extractVars, solveVars,
                   energyVars, paramVars, factoryVars, credVars, inspVars,
                   circVars, adapterVars, dwVars, k_callbacks, k_config,
                   k_model, k_max_iter, k_calls, k_start, k_solves>>

CbNext ==
    \/ CbSolveEnter
    \/ CbSolveDefaultRaises
    \/ CbCall
    \/ CbSolveReturns

SpecCallback == CbInit /\ [][CbNext]_vars

\* C30: with the default OptimizationCallback the counter is 0 when a solve
\* starts, and the iteration numbers recorded and logged during the solve
\* are 1, 2, ... in steps of one, also on a later solve on the same or on
\* another model.
C30_IterationsRestartEverySolve ==
    kpc \in {"minimize", "returned"} =>
       LET cb == k_callbacks[k_config]
           before == Len(cb.iterations) - k_calls
       IN /\ k_start = 0
          /\ \A j \in 1..k_calls :
                /\ cb.iterations[before + j] = j
                /\ cb.logged[before + j] = j

====
